---- MODULE Spec2Model ----
(***************************************************************************)
(* The field-resolution pipeline of the PDF field extractor: the           *)
(* preprocessor (pdf_extractor/preprocessor.py), the candidate generator   *)
(* (candidate_generator.py), the scorer (scorer_validator.py), the         *)
(* decision engine (decision_engine.py) with the fallback client           *)
(* (llm_client.py) it calls, and the orchestrator (extractor.py).          *)
(*                                                                         *)
(* A Python str is a sequence of one-character strings; a Python dict is   *)
(* a sequence of <<key, value>> pairs with distinct keys, in insertion     *)
(* order. Scores are in thousandths (0.85 is 850).                         *)
(***************************************************************************)
EXTENDS Integers, Sequences, FiniteSets, TLC

VARIABLES
    field_results,      \* argument: dict field name -> best candidate or None
    extraction_schema,  \* argument: dict field name -> description
    label,              \* argument: the document label
    full_text,          \* argument: document_context['full_text']
    phase,              \* "ready": no call yet; "returned"; "raised"
    final_values,       \* the dict process_extraction builds and returns
    accepted,           \* final_values as it stood when the field loop ended
    pending_fields,     \* the list of fields collected for the fallback
    path,               \* dict field name -> branch of the field loop taken
    llm_requests,       \* the requests sent to the service during this call
    llm_reply,          \* what the service does with a request
    used_llm_last_call, \* DecisionEngine.used_llm_last_call
    rescored,           \* history: the field the latest call had scored again, or 0
    text_blocks,        \* the fragments of the document: the list of their texts
    embedding,          \* what the embedding service answers in this extraction
    candidates,         \* dict field name -> list of candidates
    label_cache,        \* CandidateGenerator.label_cache
    generate_calls,     \* the concurrent generate_candidates calls: position and locals
    fn_arg,             \* the argument a function is applied to
    fn_out              \* the results of applying it once, twice, ...

vars_engine == <<field_results, extraction_schema, label, full_text, phase,
                 final_values, accepted, pending_fields, path, llm_requests,
                 llm_reply, used_llm_last_call, rescored>>

vars_generator == <<text_blocks, embedding, candidates, label_cache>>

vars_function == <<fn_arg, fn_out>>

vars == <<vars_engine, vars_generator, generate_calls, vars_function>>

-----------------------------------------------------------------------------
(* Characters and the str methods the engine uses *)

Digits == {"0", "1", "2", "3", "4", "5", "6", "7", "8", "9"}

LowerLetters == <<"a", "b", "c", "d", "e", "f", "g", "h", "i", "j", "k", "l", "m",
                  "n", "o", "p", "q", "r", "s", "t", "u", "v", "w", "x", "y", "z",
                  "ç">>

UpperLetters == <<"A", "B", "C", "D", "E", "F", "G", "H", "I", "J", "K", "L", "M",
                  "N", "O", "P", "Q", "R", "S", "T", "U", "V", "W", "X", "Y", "Z",
                  "Ç">>

Whitespace == {" ", "\t", "\n"}

IsDigit(c) == c \in Digits

IsSpace(c) == c \in Whitespace

\* the capital I with a dot above, the one letter whose lower case is two
\* characters: 'i' and the combining dot above, which is no word character;
\* the two characters are written by their code points
CapitalDottedI == "U+0130"
CombiningDot == "U+0307"

IsLetter(c) ==
    \/ \E i \in DOMAIN LowerLetters : c = LowerLetters[i] \/ c = UpperLetters[i]
    \/ c = CapitalDottedI

\* the regex class \w
IsWordChar(c) == IsLetter(c) \/ IsDigit(c) \/ c = "_"

LowerChar(c) ==
    IF \E i \in DOMAIN UpperLetters : UpperLetters[i] = c
    THEN LowerLetters[CHOOSE i \in DOMAIN UpperLetters : UpperLetters[i] = c]
    ELSE c

UpperChar(c) ==
    IF \E i \in DOMAIN LowerLetters : LowerLetters[i] = c
    THEN UpperLetters[CHOOSE i \in DOMAIN LowerLetters : LowerLetters[i] = c]
    ELSE c

\* str.lower of one character
LowerOf(c) == IF c = CapitalDottedI THEN <<"i", CombiningDot>> ELSE <<LowerChar(c)>>

RECURSIVE LowerEach(_)
LowerEach(s) == IF s = <<>> THEN <<>> ELSE LowerOf(Head(s)) \o LowerEach(Tail(s))

\* str.lower
Lower(s) ==
    IF \E i \in 1..Len(s) : s[i] = CapitalDottedI
    THEN LowerEach(s)
    ELSE [i \in 1..Len(s) |-> LowerChar(s[i])]

\* str.upper
Upper(s) == [i \in 1..Len(s) |-> UpperChar(s[i])]

Min2(a, b) == IF a <= b THEN a ELSE b

\* s[:n]
SliceTo(s, n) == SubSeq(s, 1, Min2(n, Len(s)))

\* s[n:]
SliceFrom(s, n) == SubSeq(s, n + 1, Len(s))

\* s[a:b]
Slice(s, a, b) == SubSeq(s, a + 1, Min2(b, Len(s)))

\* needle in hay
Contains(hay, needle) ==
    \E i \in 0..(Len(hay) - Len(needle)) : SubSeq(hay, i + 1, i + Len(needle)) = needle

\* str.strip
Strip(s) ==
    LET solid == {i \in 1..Len(s) : ~IsSpace(s[i])}
    IN  IF solid = {} THEN <<>>
        ELSE SubSeq(s, CHOOSE i \in solid : \A j \in solid : i <= j,
                       CHOOSE i \in solid : \A j \in solid : i >= j)

\* str.split with no argument
RECURSIVE SplitWS(_)
SplitWS(s) ==
    IF s = <<>> THEN <<>>
    ELSE IF IsSpace(Head(s)) THEN SplitWS(Tail(s))
    ELSE LET stops == {i \in 1..Len(s) : IsSpace(s[i])}
             n == IF stops = {} THEN Len(s) + 1
                  ELSE CHOOSE i \in stops : \A j \in stops : i <= j
         IN  <<SubSeq(s, 1, n - 1)>> \o SplitWS(SubSeq(s, n, Len(s)))

\* sep.join(words)
RECURSIVE JoinWith(_, _)
JoinWith(words, sep) ==
    IF words = <<>> THEN <<>>
    ELSE IF Len(words) = 1 THEN words[1]
    ELSE words[1] \o sep \o JoinWith(Tail(words), sep)

\* str.replace for one-character arguments
ReplaceChar(s, old, new) == [i \in 1..Len(s) |-> IF s[i] = old THEN new ELSE s[i]]

\* ''.join(filter(str.isdigit, s))
DigitsOf(s) == SelectSeq(s, IsDigit)

DigitValue(c) == CHOOSE n \in 0..9 : <<"0", "1", "2", "3", "4", "5", "6", "7", "8", "9">>[n + 1] = c

\* int(s) for a string of digits
RECURSIVE ToInt(_)
ToInt(s) == IF s = <<>> THEN 0 ELSE 10 * ToInt(SubSeq(s, 1, Len(s) - 1)) + DigitValue(s[Len(s)])

\* str.zfill(2) for a string of digits
ZFill2(s) == IF Len(s) < 2 THEN <<"0">> \o s ELSE s

AllDigits(s) == \A i \in 1..Len(s) : IsDigit(s[i])

-----------------------------------------------------------------------------
(* The regular expressions of the engine *)

\* is there a word character at position p
WordAt(s, p) == p >= 1 /\ p <= Len(s) /\ IsWordChar(s[p])

\* \b between positions p and p + 1
Boundary(s, p) == WordAt(s, p) # WordAt(s, p + 1)

\* the index of the first character at or after p that is not whitespace
SkipSpaces(s, p) ==
    LET solid == {i \in p..Len(s) : ~IsSpace(s[i])}
    IN  IF solid = {} THEN Len(s) + 1 ELSE CHOOSE i \in solid : \A j \in solid : i <= j

\* the literal lit (lower case) at position p of s, ignoring case
LitAt(s, p, lit) ==
    /\ p >= 1
    /\ p + Len(lit) - 1 <= Len(s)
    /\ Lower(SubSeq(s, p, p + Len(lit) - 1)) = lit

\* \b\d{5}-?\d{3}\b at position i: the length of the match, 0 when none
CepMatchAt(s, i) ==
    IF ~(i + 7 <= Len(s) /\ Boundary(s, i - 1) /\ AllDigits(SubSeq(s, i, i + 4)))
    THEN 0
    ELSE IF s[i + 5] = "-"
    THEN IF i + 8 <= Len(s) /\ AllDigits(SubSeq(s, i + 6, i + 8)) /\ Boundary(s, i + 8)
         THEN 9 ELSE 0
    ELSE IF AllDigits(SubSeq(s, i + 5, i + 7)) /\ Boundary(s, i + 7)
         THEN 8 ELSE 0

\* re.search(r'\b(\d{5}-?\d{3})\b', s): <<group 1>> of the leftmost match, or <<>>
CepSearch(s) ==
    LET hits == {i \in 1..Len(s) : CepMatchAt(s, i) > 0}
    IN  IF hits = {} THEN <<>>
        ELSE LET i == CHOOSE h \in hits : \A j \in hits : h <= j
             IN  <<SubSeq(s, i, i + CepMatchAt(s, i) - 1)>>

\* ^(\d{1,2})SEP(\d{1,2})SEP(\d{2,4})$ with SEP one of seps:
\* <<the three groups>> of the match, or <<>>
DateGroups(s, seps) ==
    LET shapes == {abc \in (1..2) \X (1..2) \X (2..4) :
                     /\ Len(s) = abc[1] + abc[2] + abc[3] + 2
                     /\ AllDigits(SubSeq(s, 1, abc[1]))
                     /\ s[abc[1] + 1] \in seps
                     /\ AllDigits(SubSeq(s, abc[1] + 2, abc[1] + abc[2] + 1))
                     /\ s[abc[1] + abc[2] + 2] \in seps
                     /\ AllDigits(SubSeq(s, abc[1] + abc[2] + 3, Len(s)))}
    IN  IF shapes = {} THEN <<>>
        ELSE LET abc == CHOOSE x \in shapes : TRUE
             IN  <<<<SubSeq(s, 1, abc[1]),
                     SubSeq(s, abc[1] + 2, abc[1] + abc[2] + 1),
                     SubSeq(s, abc[1] + abc[2] + 3, Len(s))>>>>

\* \s*:\s* from position p: the position after the match, 0 when none
ColonAt(s, p) ==
    LET q == SkipSpaces(s, p)
    IN  IF q <= Len(s) /\ s[q] = ":" THEN SkipSpaces(s, q + 1) ELSE 0

S_nascimento == <<"n", "a", "s", "c", "i", "m", "e", "n", "t", "o">>
S_data == <<"d", "a", "t", "a">>
S_date == <<"d", "a", "t", "e">>
S_de == <<"d", "e">>

\* data\s+de\s+nascimento from position 1: the position after it, 0 when none
DataDeNascimentoEnd(s) ==
    IF ~LitAt(s, 1, S_data) THEN 0
    ELSE LET q1 == SkipSpaces(s, 5)
         IN  IF ~(q1 > 5 /\ LitAt(s, q1, S_de)) THEN 0
             ELSE LET q2 == SkipSpaces(s, q1 + 2)
                  IN  IF q2 > q1 + 2 /\ LitAt(s, q2, S_nascimento) THEN q2 + 10 ELSE 0

\* re.sub(r'^(?:nascimento|data(?:\s+de\s+nascimento)?|date)\s*:\s*', '', s, flags=re.IGNORECASE)
SubLabel(s) ==
    LET ends == <<IF LitAt(s, 1, S_nascimento) THEN 11 ELSE 0,
                  DataDeNascimentoEnd(s),
                  IF LitAt(s, 1, S_data) THEN 5 ELSE 0,
                  IF LitAt(s, 1, S_date) THEN 5 ELSE 0>>
        ok == {k \in 1..4 : ends[k] > 0 /\ ColonAt(s, ends[k]) > 0}
    IN  IF ok = {} THEN s
        ELSE LET k == CHOOSE x \in ok : \A y \in ok : x <= y
             IN  SubSeq(s, ColonAt(s, ends[k]), Len(s))

\* re.sub(r'^[A-Za-zÀ-ÿ]+\s*:\s*', '', s)
SubWord(s) ==
    LET others == {i \in 1..Len(s) : ~IsLetter(s[i])}
        k == IF others = {} THEN Len(s) + 1 ELSE CHOOSE i \in others : \A j \in others : i <= j
    IN  IF k > 1 /\ ColonAt(s, k) > 0 THEN SubSeq(s, ColonAt(s, k), Len(s)) ELSE s

\* \b(rua|avenida|av\.|travessa|alameda|rodovia|rod\.|estrada|praça|praca|largo)\b
StreetTypes == {
    <<"r", "u", "a">>,
    <<"a", "v", "e", "n", "i", "d", "a">>,
    <<"a", "v", ".">>,
    <<"t", "r", "a", "v", "e", "s", "s", "a">>,
    <<"a", "l", "a", "m", "e", "d", "a">>,
    <<"r", "o", "d", "o", "v", "i", "a">>,
    <<"r", "o", "d", ".">>,
    <<"e", "s", "t", "r", "a", "d", "a">>,
    <<"p", "r", "a", "ç", "a">>,
    <<"p", "r", "a", "c", "a">>,
    <<"l", "a", "r", "g", "o">>}

\* re.search of the street-type pattern in s
StreetTypeSearch(s) ==
    \E i \in 1..Len(s) : \E w \in StreetTypes :
        /\ i + Len(w) - 1 <= Len(s)
        /\ SubSeq(s, i, i + Len(w) - 1) = w
        /\ Boundary(s, i - 1)
        /\ Boundary(s, i + Len(w) - 1)

\* re.search(r'\b\d+[\w\-\/]*\b', s)
HouseNumberSearch(s) ==
    \E i \in 1..Len(s) : \E j \in i..Len(s) : \E k \in j..Len(s) :
        /\ Boundary(s, i - 1)
        /\ AllDigits(SubSeq(s, i, j))
        /\ \A n \in (j + 1)..k : IsWordChar(s[n]) \/ s[n] = "-" \/ s[n] = "/"
        /\ Boundary(s, k)

UF_CODES == {
    <<"A", "C">>, <<"A", "L">>, <<"A", "P">>, <<"A", "M">>, <<"B", "A">>, <<"C", "E">>,
    <<"D", "F">>, <<"E", "S">>, <<"G", "O">>, <<"M", "A">>, <<"M", "T">>, <<"M", "S">>,
    <<"M", "G">>, <<"P", "A">>, <<"P", "B">>, <<"P", "R">>, <<"P", "E">>, <<"P", "I">>,
    <<"R", "J">>, <<"R", "N">>, <<"R", "S">>, <<"R", "O">>, <<"R", "R">>, <<"S", "C">>,
    <<"S", "P">>, <<"S", "E">>, <<"T", "O">>}

S_cpf == <<"c", "p", "f">>
S_cnpj == <<"c", "n", "p", "j">>
S_cep == <<"c", "e", "p">>
S_estado == <<"e", "s", "t", "a", "d", "o">>
S_uf == <<"u", "f">>
S_state == <<"s", "t", "a", "t", "e">>
S_endereco == <<"e", "n", "d", "e", "r", "e", "c", "o">>
S_enderec_o == <<"e", "n", "d", "e", "r", "e", "ç", "o">>
S_address == <<"a", "d", "d", "r", "e", "s", "s">>
S_formato == <<"f", "o", "r", "m", "a", "t", "o">>
S_format == <<"f", "o", "r", "m", "a", "t">>

-----------------------------------------------------------------------------
(* Python values and dicts *)

Str(s) == [type |-> "str", v |-> s]

NoneValue == [type |-> "NoneType", v |-> <<>>]

\* a JSON number, kept as its digits
Num(s) == [type |-> "int", v |-> s]

EmptyDict == <<>>

\* list(d.keys())
Keys(d) == [i \in 1..Len(d) |-> d[i][1]]

KeySet(d) == {d[i][1] : i \in 1..Len(d)}

\* k in d
Has(d, k) == k \in KeySet(d)

\* d[k]
Get(d, k) == d[CHOOSE i \in 1..Len(d) : d[i][1] = k][2]

\* d.get(k, default)
GetOr(d, k, default) == IF Has(d, k) THEN Get(d, k) ELSE default

\* d[k] = v: in place when k is a key, appended otherwise
Put(d, k, v) ==
    IF Has(d, k) THEN [i \in 1..Len(d) |-> IF d[i][1] = k THEN <<k, v>> ELSE d[i]]
    ELSE Append(d, <<k, v>>)

\* d.update(e)
RECURSIVE Update(_, _)
Update(d, e) == IF e = <<>> THEN d ELSE Update(Put(d, e[1][1], e[1][2]), Tail(e))

-----------------------------------------------------------------------------
(* pdf_extractor/config.py *)

T_HIGH == 850

T_LOW == 600

-----------------------------------------------------------------------------
(* DecisionEngine *)

IsStateField(field_lower) ==
    Contains(field_lower, S_estado) \/ Contains(field_lower, S_uf) \/ Contains(field_lower, S_state)

IsAddressField(field_lower) ==
    \/ Contains(field_lower, S_endereco)
    \/ Contains(field_lower, S_enderec_o)
    \/ Contains(field_lower, S_address)

\* a variant that counts the characters of the value, not its digits
C7M_deterministic_accept(field_name, value) ==
    IF Contains(Lower(field_name), S_cpf)
    THEN Len(value) = 11
    ELSE IF /\ Contains(Lower(field_name), S_data) \/ Contains(Lower(field_name), S_date)
            /\ DateGroups(Strip(value), {"/", "-"}) # <<>>
    THEN TRUE
    ELSE IF Contains(Lower(field_name), S_cep)
    THEN CepSearch(Strip(value)) # <<>>
    ELSE IF IsStateField(Lower(field_name)) /\ Upper(Strip(value)) \in UF_CODES
    THEN TRUE
    ELSE /\ IsAddressField(Lower(field_name))
         /\ StreetTypeSearch(Lower(value))
         /\ HouseNumberSearch(Lower(value))

_deterministic_accept(field_name, value) ==
    LET field_lower == Lower(field_name)
    IN  IF Contains(field_lower, S_cpf)
        THEN Len(DigitsOf(value)) = 11
        ELSE IF /\ Contains(field_lower, S_data) \/ Contains(field_lower, S_date)
                /\ DateGroups(Strip(value), {"/", "-"}) # <<>>
        THEN TRUE
        ELSE IF Contains(field_lower, S_cep)
        THEN CepSearch(Strip(value)) # <<>>
        ELSE IF IsStateField(field_lower) /\ Upper(Strip(value)) \in UF_CODES
        THEN TRUE
        ELSE IF /\ IsAddressField(field_lower)
                /\ StreetTypeSearch(Lower(value))
                /\ HouseNumberSearch(Lower(value))
        THEN TRUE
        ELSE FALSE

\* a variant that leaves the digits of a CPF as they are
C13M_FormatCpf(digits) == digits

\* f"{digits[:3]}.{digits[3:6]}.{digits[6:9]}-{digits[9:]}"
FormatCpf(digits) ==
    SliceTo(digits, 3) \o <<".">> \o Slice(digits, 3, 6) \o <<".">>
        \o Slice(digits, 6, 9) \o <<"-">> \o SliceFrom(digits, 9)

\* f"{digits[:2]}.{digits[2:5]}.{digits[5:8]}/{digits[8:12]}-{digits[12:]}"
FormatCnpj(digits) ==
    SliceTo(digits, 2) \o <<".">> \o Slice(digits, 2, 5) \o <<".">>
        \o Slice(digits, 5, 8) \o <<"/">> \o Slice(digits, 8, 12) \o <<"-">>
        \o SliceFrom(digits, 12)

\* a variant that puts the hyphen after the fourth digit
C14M_FormatCep(digits) == SliceTo(digits, 4) \o <<"-">> \o SliceFrom(digits, 4)

\* f"{digits[:5]}-{digits[5:]}"
FormatCep(digits) == SliceTo(digits, 5) \o <<"-">> \o SliceFrom(digits, 5)

\* y if len(y) == 4 else ('20' + y if int(y) <= 50 else '19' + y)
ExpandYear(y) ==
    IF Len(y) = 4 THEN y
    ELSE IF ToInt(y) <= 50 THEN <<"2", "0">> \o y ELSE <<"1", "9">> \o y

\* f"{day}/{month}/{year}" of the groups d, mth, y
FormatDate(m) == ZFill2(m[1]) \o <<"/">> \o ZFill2(m[2]) \o <<"/">> \o ExpandYear(m[3])

_normalize_value(value, field_name) ==
    LET normalized == JoinWith(SplitWS(value), <<" ">>)
        field_lower == Lower(field_name)
        digits == DigitsOf(normalized)
        text == SubWord(SubLabel(Strip(ReplaceChar(normalized, "-", "/"))))
        m == DateGroups(text, {"/"})
        cep == CepSearch(normalized)
    IN  IF Contains(field_lower, S_cpf) /\ Len(digits) = 11
        THEN FormatCpf(digits)
        ELSE IF Contains(field_lower, S_cnpj) /\ Len(digits) = 14
        THEN FormatCnpj(digits)
        ELSE IF /\ \/ Contains(field_lower, S_data)
                   \/ Contains(field_lower, S_date)
                   \/ Contains(field_lower, S_nascimento)
                /\ m # <<>>
        THEN FormatDate(m[1])
        ELSE IF Contains(field_lower, S_cep) /\ cep # <<>>
        THEN FormatCep(DigitsOf(cep[1]))
        ELSE IF Contains(field_lower, S_cep) /\ Len(digits) = 8
        THEN FormatCep(digits)
        ELSE IF IsStateField(field_lower)
        THEN SliceTo(Upper(normalized), 2)
        ELSE normalized

\* a variant that keeps the raw text when the description names a format
C6M_normalize_with_mini_model(value, field_name, field_description) ==
    IF \/ Contains(Lower(field_description), S_formato)
       \/ Contains(Lower(field_description), S_format)
    THEN value
    ELSE _normalize_value(value, field_name)

_normalize_with_mini_model(value, field_name, field_description) ==
    LET normalized == _normalize_value(value, field_name)
        desc_lower == Lower(field_description)
    IN  IF Contains(desc_lower, S_formato) \/ Contains(desc_lower, S_format)
        THEN normalized
        ELSE normalized

\* a variant with no Medium tier: below T_HIGH, override or fallback
C8M_DecideScored(field_name, candidate_result, schema) ==
    IF candidate_result.final_score >= T_HIGH
    THEN [accept |-> TRUE,
          value |-> _normalize_value(candidate_result.text, field_name),
          path |-> "high"]
    ELSE IF _deterministic_accept(field_name, candidate_result.text)
    THEN [accept |-> TRUE,
          value |-> _normalize_value(candidate_result.text, field_name),
          path |-> "override"]
    ELSE [accept |-> FALSE, value |-> <<>>, path |-> "fallback"]

\* the tier decision on a field that has a candidate
DecideScored(field_name, candidate_result, schema) ==
    IF candidate_result.final_score >= T_HIGH
    THEN [accept |-> TRUE,
          value |-> _normalize_value(candidate_result.text, field_name),
          path |-> "high"]
    ELSE IF candidate_result.final_score >= T_LOW
    THEN [accept |-> TRUE,
          value |-> _normalize_with_mini_model(candidate_result.text, field_name,
                        GetOr(schema, field_name, <<>>)),
          path |-> "medium"]
    ELSE IF _deterministic_accept(field_name, candidate_result.text)
    THEN [accept |-> TRUE,
          value |-> _normalize_value(candidate_result.text, field_name),
          path |-> "override"]
    ELSE [accept |-> FALSE, value |-> <<>>, path |-> "fallback"]

\* a variant that gives a field with no candidate the empty string at once
C5M_DecideField(field_name, candidate_result, schema) ==
    IF candidate_result.none
    THEN [accept |-> TRUE, value |-> <<>>, path |-> "absent"]
    ELSE DecideScored(field_name, candidate_result, schema)

\* one pass of the loop over field_results.items(): what it does with the field
DecideField(field_name, candidate_result, schema) ==
    IF candidate_result.none
    THEN [accept |-> FALSE, value |-> <<>>, path |-> "absent"]
    ELSE DecideScored(field_name, candidate_result, schema)

\* the body of the loop: the state acc after the decision d on field_name
LoopStep(acc, field_name, d) ==
    [final_values |-> IF d.accept
                      THEN Put(acc.final_values, field_name, Str(d.value))
                      ELSE acc.final_values,
     pending_fields |-> IF d.accept
                        THEN acc.pending_fields
                        ELSE Append(acc.pending_fields, field_name),
     path |-> Put(acc.path, field_name, d.path)]

\* the loop over field_results.items(), from the state acc
RECURSIVE FieldLoop(_, _, _)
FieldLoop(items, schema, acc) ==
    IF items = <<>> THEN acc
    ELSE FieldLoop(Tail(items), schema,
             LoopStep(acc, items[1][1], DecideField(items[1][1], items[1][2], schema)))

\* a variant that asks for the whole schema
C9M_PendingSchema(pending, schema) == schema

\* {field: extraction_schema[field] for field in pending_fields}
PendingSchema(pending, schema) ==
    [i \in 1..Len(pending) |->
        <<pending[i], Get(schema, pending[i])>>]

SnippetLimit == 3000

\* a variant that cuts one character late
C10M_TextSnippet(text) ==
    IF Len(text) > SnippetLimit THEN SliceTo(text, SnippetLimit + 1) ELSE text

\* full_text[:3000] if len(full_text) > 3000 else full_text
TextSnippet(text) ==
    IF Len(text) > SnippetLimit THEN SliceTo(text, SnippetLimit) ELSE text

\* the arguments _call_llm gives to LLMClient.extract_fields
LLMArguments(pending, schema, doc_label, text, extracted_so_far) ==
    [label |-> doc_label,
     fields |-> PendingSchema(pending, schema),
     document_text |-> TextSnippet(text),
     extracted_context |-> extracted_so_far]

\* a variant that calls the service once for each pending field
C1M_LLMCalls(pending, schema, doc_label, text, extracted_so_far) ==
    [i \in 1..Len(pending) |->
        LLMArguments(<<pending[i]>>, schema, doc_label, text, extracted_so_far)]

\* the calls of _call_llm that process_extraction makes after the loop
LLMCalls(pending, schema, doc_label, text, extracted_so_far) ==
    IF pending # <<>>
    THEN <<LLMArguments(pending, schema, doc_label, text,
                        extracted_so_far)>>
    ELSE <<>>

-----------------------------------------------------------------------------
(* LLMClient *)

\* what the service does with a request: the request raises, the content is
\* not JSON, or the content is a JSON object
ReplyRaises == [kind |-> "raises", object |-> EmptyDict]

ReplyNotJson == [kind |-> "not_json", object |-> EmptyDict]

ReplyObject(d) == [kind |-> "object", object |-> d]

\* {field_name: "" for field_name in fields.keys()}
EmptyStrings(fields) == [i \in 1..Len(fields) |-> <<fields[i][1], Str(<<>>)>>]

\* a variant that returns the parsed object as it is
C2M_EnsurePresent(results, names) == results

\* for field_name in fields.keys(): if field_name not in results: results[field_name] = ""
RECURSIVE EnsurePresent(_, _)
EnsurePresent(results, names) ==
    IF names = <<>> THEN results
    ELSE EnsurePresent(IF Has(results, names[1]) THEN results
                       ELSE Put(results, names[1], Str(<<>>)),
                       Tail(names))

\* a variant with no handler: a failure of the service propagates
C4M_extract_fields(args, reply) ==
    IF reply.kind = "object"
    THEN [raised |-> FALSE, results |-> EnsurePresent(reply.object, Keys(args.fields))]
    ELSE [raised |-> TRUE, results |-> EmptyDict]

\* LLMClient.extract_fields: the try block and its handler
extract_fields(args, reply) ==
    IF reply.kind = "object"
    THEN [raised |-> FALSE, results |-> EnsurePresent(reply.object, Keys(args.fields))]
    ELSE [raised |-> FALSE, results |-> EmptyStrings(args.fields)]

\* final_values.update(llm_results) with the results r of a call
ApplyResults(acc, r) ==
    [raised |-> r.raised,
     final_values |-> IF r.raised THEN acc.final_values
                      ELSE Update(acc.final_values, r.results)]

\* the calls made, one after the other, until one raises
RECURSIVE ApplyCalls(_, _, _)
ApplyCalls(calls, reply, acc) ==
    IF calls = <<>> \/ acc.raised THEN acc
    ELSE ApplyCalls(Tail(calls), reply, ApplyResults(acc, extract_fields(calls[1], reply)))

\* what process_extraction leaves behind: loop is the state after the field
\* loop, calls the calls made, done the state after the last of them
Outcome(loop, calls, done) ==
    [raised |-> done.raised,
     final_values |-> done.final_values,
     accepted |-> loop.final_values,
     pending_fields |-> loop.pending_fields,
     path |-> loop.path,
     llm_requests |-> calls,
     used_llm_last_call |-> calls # <<>> /\ ~done.raised]

\* the part of process_extraction after the field loop
AfterLoop(loop, calls, reply) ==
    Outcome(loop, calls,
            ApplyCalls(calls, reply, [raised |-> FALSE, final_values |-> loop.final_values]))

FallbackStep(loop, doc_label, schema, text, reply) ==
    AfterLoop(loop,
              LLMCalls(loop.pending_fields, schema, doc_label, text, loop.final_values),
              reply)

\* DecisionEngine.process_extraction
process_extraction(results, doc_label, schema, text, reply) ==
    FallbackStep(FieldLoop(results, schema,
                     [final_values |-> EmptyDict, pending_fields |-> <<>>,
                      path |-> EmptyDict]),
                 doc_label, schema, text, reply)

-----------------------------------------------------------------------------
(* The calls explored: schemas, candidates, documents and replies *)

N_cpf == S_cpf
N_data == <<"d", "a", "t", "a", "_", "n", "a", "s", "c", "i", "m", "e", "n", "t", "o">>
N_cep == S_cep
N_uf == <<"U", "F">>
N_endereco == S_endereco
N_nome == <<"n", "o", "m", "e">>

N_cidade == <<"c", "i", "d", "a", "d", "e">>

\* the description the schema gives each field
Describe(name) ==
    CASE name = N_cpf -> <<"n", "u", "m", "e", "r", "o", " ", "d", "o", " ", "C", "P", "F">>
      [] name = N_data -> <<"d", "a", "t", "a", " ", "n", "o", " ", "f", "o", "r", "m", "a", "t", "o", " ", "d", "d", "/", "m", "m", "/", "a", "a", "a", "a">>
      [] name = N_cep -> <<"c", "e", "p">>
      [] name = N_uf -> <<"e", "s", "t", "a", "d", "o">>
      [] name = N_cidade -> <<"c", "i", "d", "a", "d", "e", " ", "d", "o", " ", "d", "e", "s", "t", "i", "n", "a", "t", "a", "r", "i", "o">>
      [] name = N_endereco -> <<"r", "u", "a", " ", "e", " ", "n", "u", "m", "e", "r", "o">>
      [] OTHER -> <<"N", "o", "m", "e", " ", "d", "o", " ", "t", "i", "t", "u", "l", "a", "r">>

\* candidate texts for each field: well formed and not
CandidateTexts(name) ==
    CASE name = N_cpf -> {<<"C", "P", "F", ":", " ", "1", "2", "3", ".", "4", "5", "6", ".", "7", "8", "9", "-", "0", "9">>,
                          <<"1", "2", "3", ".", "4", "5", "6">>}
      [] name = N_data -> {<<"N", "a", "s", "c", "i", "m", "e", "n", "t", "o", ":", " ", "1", "-", "2", "-", "9", "9">>, <<"j", "a", "n", " ", "9", "9">>}
      [] name = N_cep -> {<<"0", "1", "3", "1", "0", "1", "0", "0">>, <<"0", "1", "3", "1">>}
      [] name = N_uf -> {<<" ", "s", "p">>, <<"x", "x">>}
      [] name = N_endereco -> {<<"R", "u", "a", " ", "A", " ", "1", "0">>, <<"C", "e", "n", "t", "r", "o">>}
      [] OTHER -> {<<"A", "n", "a", " ", " ", "B">>, <<"x">>}

\* final scores on both sides of each threshold, in rising order
ScoreLadder == <<T_LOW - 1, T_LOW, T_HIGH - 1, T_HIGH>>

Scores == {ScoreLadder[i] : i \in DOMAIN ScoreLadder}

\* select_best_candidate returned None
NoCandidate == [none |-> TRUE, text |-> <<>>, final_score |-> 0]

Candidate(text, score) == [none |-> FALSE, text |-> text, final_score |-> score]

CandidateOptions(name) ==
    {NoCandidate} \cup {Candidate(t, s) : t \in CandidateTexts(name), s \in Scores}

MaxFields == 2

\* the lists of at most n distinct names of universe
NameLists(universe, n) ==
    {q \in UNION {[1..k -> universe] : k \in 0..n} :
        \A i, j \in 1..Len(q) : i # j => q[i] # q[j]}

SchemaOf(names) == [i \in 1..Len(names) |-> <<names[i], Describe(names[i])>>]

\* the field_results dicts over the fields names, in schema order
FieldResultsOf(names) ==
    LET all == UNION {CandidateOptions(names[i]) : i \in 1..Len(names)}
    IN  {[i \in 1..Len(names) |-> <<names[i], f[i]>>] :
            f \in {g \in [1..Len(names) -> all] :
                     \A i \in 1..Len(names) : g[i] \in CandidateOptions(names[i])}}

Labels == {<<"f", "a", "t", "u", "r", "a">>}

ShortText == <<"C", "P", "F", ":", " ", "1", "2", "3">>

\* the characters a long document repeats
TextAlphabet == <<"a", "b", " ", "1", "2", ":", ".">>

\* a document text of n characters
TextOfLength(n) == [i \in 1..n |-> TextAlphabet[((i - 1) % Len(TextAlphabet)) + 1]]

MaxExtra == 2

\* documents shorter than, as long as and longer than the snippet limit
LongTexts ==
    {TextOfLength(n) : n \in {0, 1, SnippetLimit - 1} \cup (SnippetLimit..(SnippetLimit + MaxExtra))}

\* a key of a reply that no schema holds
ForeignKey == <<"o", "b", "s">>

AnswerText == <<"x">>

\* the reply that answers every field of names with a string
AnswerAll(names) == ReplyObject([i \in 1..Len(names) |-> <<names[i], Str(AnswerText)>>])

BasicReplies(names) == {ReplyRaises, AnswerAll(names)}

\* the values a JSON object may give a key: a string, null, a number
ReplyValues == {Str(AnswerText), NoneValue, Num(<<"7">>)}

MaxReplyKeys == 2

\* the JSON objects of at most MaxReplyKeys keys over the fields names and
\* a key that was not asked for
ReplyObjects(names) ==
    LET keys == {names[i] : i \in 1..Len(names)} \cup {ForeignKey}
    IN  {d \in UNION {[1..k -> keys \X ReplyValues] : k \in 0..MaxReplyKeys} :
            \A i, j \in 1..Len(d) : i # j => d[i][1] # d[j][1]}

AllReplies(names) ==
    {ReplyRaises, ReplyNotJson} \cup {ReplyObject(d) : d \in ReplyObjects(names)}

-----------------------------------------------------------------------------
(* The engine as a state machine *)

\* no document has been handed to the pipeline
NoDocument ==
    /\ text_blocks = <<>>
    /\ embedding = [fails |-> "never", query |-> <<>>, label |-> <<>>]
    /\ candidates = EmptyDict
    /\ label_cache = EmptyDict

\* no generate_candidates call is running
NoCalls == generate_calls = <<>>

\* no function is being applied on its own
NoFunction == fn_arg = <<>> /\ fn_out = <<>>

\* DecisionEngine.__init__, with the arguments of the first call chosen
InitEngine ==
    /\ phase = "ready"
    /\ final_values = EmptyDict
    /\ accepted = EmptyDict
    /\ pending_fields = <<>>
    /\ path = EmptyDict
    /\ llm_requests = <<>>
    /\ used_llm_last_call = FALSE
    /\ rescored = 0

\* the arguments of the call; every_reply says which replies of the service are drawn
InitArguments(lists, texts, every_reply) ==
    /\ \E names \in lists :
          /\ extraction_schema = SchemaOf(names)
          /\ field_results \in FieldResultsOf(names)
          /\ llm_reply \in (IF every_reply THEN AllReplies(names) ELSE BasicReplies(names))
    /\ label \in Labels
    /\ full_text \in texts

\* the fields of the schemas of several fields
CoreNames == {N_cpf, N_data, N_nome}

AllNames == {N_cpf, N_data, N_cep, N_uf, N_endereco, N_nome}

\* every field alone, and the core fields together in every order
Init ==
    /\ InitEngine /\ NoDocument /\ NoCalls /\ NoFunction
    /\ InitArguments(NameLists(CoreNames, MaxFields) \cup NameLists(AllNames, 1),
                     {ShortText}, FALSE)

\* two fields in every order, under every reply
InitReply ==
    /\ InitEngine /\ NoDocument /\ NoCalls /\ NoFunction
    /\ InitArguments(NameLists({N_nome, N_cpf}, MaxFields), {ShortText}, TRUE)

\* one field, under every document length
InitText ==
    /\ InitEngine /\ NoDocument /\ NoCalls /\ NoFunction
    /\ InitArguments({<<N_nome>>}, LongTexts, FALSE)

\* a variant that never resets the flag
C26M_FlagAfter(flag_before, fallback_fired) == flag_before \/ fallback_fired

\* self.used_llm_last_call after a call: reset at line 34 whatever it was, set
\* at line 75 when the fallback has fired
FlagAfter(flag_before, fallback_fired) ==
    LET reset == FALSE
    IN  IF fallback_fired THEN TRUE ELSE reset

\* one call of process_extraction with the arguments results
Call(results) ==
    \E r \in {process_extraction(results, label, extraction_schema, full_text, llm_reply)} :
        /\ field_results' = results
        /\ phase' = IF r.raised THEN "raised" ELSE "returned"
        /\ final_values' = r.final_values
        /\ accepted' = r.accepted
        /\ pending_fields' = r.pending_fields
        /\ path' = r.path
        /\ llm_requests' = r.llm_requests
        /\ used_llm_last_call' = FlagAfter(used_llm_last_call, r.used_llm_last_call)
        /\ UNCHANGED <<extraction_schema, label, full_text, llm_reply>>
        /\ UNCHANGED <<vars_generator, generate_calls, vars_function>>

\* the first call on the engine
ProcessExtraction ==
    /\ phase = "ready"
    /\ Call(field_results)
    /\ rescored' = 0

\* a later call on the same engine: the scorer has put one field's candidate
\* on the next rung of the ladder
ProcessExtractionAgain ==
    /\ phase = "returned"
    /\ \E i \in 1..Len(field_results) : \E k \in 1..(Len(ScoreLadder) - 1) :
          /\ ~field_results[i][2].none
          /\ field_results[i][2].final_score = ScoreLadder[k]
          /\ Call([field_results EXCEPT
                      ![i] = <<field_results[i][1],
                               Candidate(field_results[i][2].text, ScoreLadder[k + 1])>>])
          /\ rescored' = i

Next == ProcessExtraction \/ ProcessExtractionAgain

Spec == Init /\ [][Next]_vars

SpecReply == InitReply /\ [][Next]_vars

SpecText == InitText /\ [][Next]_vars

-----------------------------------------------------------------------------
(* Preprocessor *)

\* re.sub(r'\s+', ' ', s)
RECURSIVE CollapseSpaces(_)
CollapseSpaces(s) ==
    IF s = <<>> THEN <<>>
    ELSE IF IsSpace(Head(s))
    THEN <<" ">> \o CollapseSpaces(SubSeq(s, SkipSpaces(s, 1), Len(s)))
    ELSE <<Head(s)>> \o CollapseSpaces(Tail(s))

\* the characters the class [^\w\s\.\-\/\(\)] leaves out
IsAllowed(c) == IsWordChar(c) \/ IsSpace(c) \/ c \in {".", "-", "/", "(", ")"}

\* re.sub(r'[^\w\s\.\-\/\(\)]', '', s)
RemoveSpecial(s) == SelectSeq(s, IsAllowed)

\* Preprocessor.normalize_text
normalize_text(text) == Lower(RemoveSpecial(CollapseSpaces(Strip(text))))

-----------------------------------------------------------------------------
(* Regular expressions: a pattern is a list of items matched in order with  *)
(* backtracking, as re does. A position is the index of the next character. *)

\* a character class: the named classes in tags and the characters in lits
InClassRaw(c, cls) ==
    \/ "d" \in cls.tags /\ IsDigit(c)
    \/ "w" \in cls.tags /\ IsWordChar(c)
    \/ "s" \in cls.tags /\ IsSpace(c)
    \/ "a" \in cls.tags /\ IsLetter(c)
    \/ "z" \in cls.tags /\ IsLetter(c) /\ c \notin {"ç", "Ç"}
    \/ "." \in cls.tags /\ c # "\n"
    \/ c \in cls.lits

\* membership under re.IGNORECASE when ic
InClass(c, cls, ic) ==
    \/ InClassRaw(c, cls)
    \/ ic /\ (InClassRaw(LowerChar(c), cls) \/ InClassRaw(UpperChar(c), cls))

\* the number of characters of the class from position p on
RunLength(s, p, cls, ic) ==
    LET out == {i \in p..Len(s) : ~InClass(s[i], cls, ic)}
    IN  (IF out = {} THEN Len(s) + 1 ELSE CHOOSE i \in out : \A j \in out : i <= j) - p

\* the items of a pattern
Rep(tags, lits, lo, hi) == [kind |-> "set", cls |-> [tags |-> tags, lits |-> lits],
                            lo |-> lo, hi |-> hi, greedy |-> TRUE, alts |-> <<>>]
Lazy(tags, lits, lo, hi) == [kind |-> "set", cls |-> [tags |-> tags, lits |-> lits],
                             lo |-> lo, hi |-> hi, greedy |-> FALSE, alts |-> <<>>]
Alt(alts) == [kind |-> "alt", cls |-> [tags |-> {}, lits |-> {}],
              lo |-> 0, hi |-> 0, greedy |-> TRUE, alts |-> alts]
Anchor(kind) == [kind |-> kind, cls |-> [tags |-> {}, lits |-> {}],
                 lo |-> 0, hi |-> 0, greedy |-> TRUE, alts |-> <<>>]
Unbounded == -1

\* does the string w stand at position p of s
StandsAt(s, p, w, ic) ==
    /\ p + Len(w) - 1 <= Len(s)
    /\ \A i \in 1..Len(w) :
          s[p + i - 1] = w[i] \/ (ic /\ LowerChar(s[p + i - 1]) = LowerChar(w[i]))

\* the positions from hi down to lo
Descending(lo, hi) == [i \in 1..(hi - lo + 1) |-> hi - i + 1]

Ascending(lo, hi) == [i \in 1..(hi - lo + 1) |-> lo + i - 1]

\* [A-Za-z...]+(?:\s+[A-Za-z...]+)* from p: where it can end, longest first
WordsEnds(s, p) ==
    LET letters == [tags |-> {"a"}, lits |-> {}]
        both == [tags |-> {"a", "s"}, lits |-> {}]
        all == Descending(p + 1, p + RunLength(s, p, both, FALSE))
        AfterLetter(q) == IsLetter(s[q - 1])
    IN  IF p <= Len(s) /\ IsLetter(s[p]) THEN SelectSeq(all, AfterLetter) ELSE <<>>

\* the positions after the item it matched at p, in the order re tries them
Choices(it, s, p, ic) ==
    IF it.kind = "b" THEN (IF Boundary(s, p - 1) THEN <<p>> ELSE <<>>)
    ELSE IF it.kind = "end"
    THEN (IF p = Len(s) + 1 \/ (p = Len(s) /\ s[p] = "\n") THEN <<p>> ELSE <<>>)
    ELSE IF it.kind = "alt"
    THEN LET Fits(w) == StandsAt(s, p, w, ic)
             fit == SelectSeq(it.alts, Fits)
         IN  [i \in 1..Len(fit) |-> p + Len(fit[i])]
    ELSE IF it.kind = "words" THEN WordsEnds(s, p)
    ELSE LET run == RunLength(s, p, it.cls, ic)
             n == IF it.hi = Unbounded THEN run ELSE Min2(run, it.hi)
         IN  IF n < it.lo THEN <<>>
             ELSE IF it.greedy THEN Descending(p + it.lo, p + n)
             ELSE Ascending(p + it.lo, p + n)

NoMatch == [ok |-> FALSE, ends |-> <<>>]

\* the match of the items at position p: the position after each item
RECURSIVE MatchItems(_, _, _, _)
RECURSIVE TryChoices(_, _, _, _, _)
RECURSIVE KeepOrRetry(_, _, _, _, _)
MatchItems(items, s, p, ic) ==
    IF items = <<>> THEN [ok |-> TRUE, ends |-> <<>>]
    ELSE TryChoices(Choices(Head(items), s, p, ic), Tail(items), s, p, ic)

TryChoices(choices, rest, s, p, ic) ==
    IF choices = <<>> THEN NoMatch
    ELSE KeepOrRetry(MatchItems(rest, s, Head(choices), ic), choices, rest, s, ic)

KeepOrRetry(r, choices, rest, s, ic) ==
    IF r.ok THEN [ok |-> TRUE, ends |-> <<Head(choices)>> \o r.ends]
    ELSE TryChoices(Tail(choices), rest, s, 0, ic)

\* re.match(pattern, s): does the pattern match at the start of s
Matches(items, s, ic) == MatchItems(items, s, 1, ic).ok

\* re.finditer(pattern, s): the matches from position p on, left to right, not
\* overlapping; each is <<start, the position after each item>>
RECURSIVE FindIter(_, _, _, _)
RECURSIVE FindIterStep(_, _, _, _, _)
FindIter(items, s, p, ic) ==
    IF p > Len(s) + 1 THEN <<>>
    ELSE FindIterStep(MatchItems(items, s, p, ic), items, s, p, ic)

FindIterStep(r, items, s, p, ic) ==
    IF ~r.ok THEN FindIter(items, s, p + 1, ic)
    ELSE <<[start |-> p, ends |-> r.ends]>>
         \o FindIter(items, s, IF r.ends[Len(r.ends)] = p THEN p + 1 ELSE r.ends[Len(r.ends)], ic)

-----------------------------------------------------------------------------
(* ScorerValidator *)

\* \d{lo,hi}
D(lo, hi) == Rep({"d"}, {}, lo, hi)

\* c?
Opt(c) == Rep({}, {c}, 0, 1)

\* one character of the set
One(lits) == Rep({}, lits, 1, 1)

\* the classes [A-Za-z0-9._%+-], [A-Za-z0-9.-] and [A-Z|a-z]
EmailLocal == [tags |-> {"z", "d"}, lits |-> {".", "_", "%", "+", "-"}]
EmailDomain == [tags |-> {"z", "d"}, lits |-> {".", "-"}]
EmailSuffix == [tags |-> {"z"}, lits |-> {"|"}]

P_cpf == <<D(3, 3), Opt("."), D(3, 3), Opt("."), D(3, 3), Opt("-"), D(2, 2)>>
P_cnpj == <<D(2, 2), Opt("."), D(3, 3), Opt("."), D(3, 3), Opt("/"), D(4, 4), Opt("-"), D(2, 2)>>
P_email == <<[Rep({}, {}, 1, Unbounded) EXCEPT !.cls = EmailLocal], One({"@"}),
             [Rep({}, {}, 1, Unbounded) EXCEPT !.cls = EmailDomain], One({"."}),
             [Rep({}, {}, 2, Unbounded) EXCEPT !.cls = EmailSuffix]>>
P_phone == <<Opt("("), D(2, 2), Opt(")"), Rep({"s"}, {}, 0, 1), D(4, 5), Opt("-"), D(4, 4)>>
P_date == <<D(1, 2), One({"/", "-"}), D(1, 2), One({"/", "-"}), D(2, 4)>>
P_cep == <<D(5, 5), Opt("-"), D(3, 3)>>

S_email == <<"e", "m", "a", "i", "l">>
S_e_mail == <<"e", "-", "m", "a", "i", "l">>
S_phone == <<"p", "h", "o", "n", "e">>
S_cidade == <<"c", "i", "d", "a", "d", "e">>
S_city == <<"c", "i", "t", "y">>

\* ScorerValidator.validation_patterns, in the order of the dict
validation_patterns ==
    <<<<S_cpf, P_cpf>>, <<S_cnpj, P_cnpj>>, <<S_email, P_email>>,
      <<S_phone, P_phone>>, <<S_date, P_date>>, <<S_cep, P_cep>>>>

\* ScorerValidator._regex_validation
_regex_validation(candidate, field_name, field_description) ==
    IF \E i \in 1..Len(validation_patterns) :
          /\ \/ Contains(Lower(field_name), validation_patterns[i][1])
             \/ Contains(Lower(field_description), validation_patterns[i][1])
          /\ Matches(validation_patterns[i][2] \o <<Anchor("end")>>, candidate.normalized, TRUE)
    THEN 1000
    ELSE IF candidate.method = "regex" THEN 800
    ELSE 500

\* a variant that gives the first candidate the full positional score
C29M__positional_score(candidate, all_candidates) ==
    IF Len(all_candidates) > 0 /\ candidate = all_candidates[1] THEN 1000 ELSE 500

\* ScorerValidator._positional_score
_positional_score(candidate, all_candidates) ==
    IF Len(all_candidates) > 0 /\ candidate = all_candidates[1] THEN 700 ELSE 500

\* \b(rua|avenida|av\.?|travessa|alameda|rodovia|rod\.?|estrada|praça|praca|largo)\b
StreetTypesOptionalDot ==
    <<<<"r", "u", "a">>, <<"a", "v", "e", "n", "i", "d", "a">>, <<"a", "v", ".">>, <<"a", "v">>, <<"t", "r", "a", "v", "e", "s", "s", "a">>, <<"a", "l", "a", "m", "e", "d", "a">>, <<"r", "o", "d", "o", "v", "i", "a">>,
      <<"r", "o", "d", ".">>, <<"r", "o", "d">>, <<"e", "s", "t", "r", "a", "d", "a">>, <<"p", "r", "a", "ç", "a">>, <<"p", "r", "a", "c", "a">>, <<"l", "a", "r", "g", "o">>>>

\* re.search(pattern, s)
Search(items, s, ic) == \E p \in 1..(Len(s) + 1) : MatchItems(items, s, p, ic).ok

\* '.' in text.split('@')[-1]
DotAfterLastAt(text) ==
    LET ats == {i \in 1..Len(text) : text[i] = "@"}
        last == IF ats = {} THEN 0 ELSE CHOOSE i \in ats : \A j \in ats : i >= j
    IN  \E i \in (last + 1)..Len(text) : text[i] = "."

\* ScorerValidator._validate_value
_validate_value(text, field_name, field_description) ==
    LET text_lower == Strip(Lower(text))
        field_lower == Lower(field_name)
    IN  IF text_lower = <<>> THEN 0
        ELSE IF Contains(field_lower, S_cpf)
        THEN (IF Len(DigitsOf(text)) = 11 THEN 1000 ELSE 300)
        ELSE IF Contains(field_lower, S_cnpj)
        THEN (IF Len(DigitsOf(text)) = 14 THEN 1000 ELSE 300)
        ELSE IF Contains(field_lower, S_cep)
        THEN (IF CepSearch(text) # <<>> THEN 1000 ELSE 300)
        ELSE IF IsStateField(field_lower)
        THEN (IF Upper(Strip(text)) \in UF_CODES THEN 1000 ELSE 300)
        ELSE IF Contains(field_lower, S_cidade) \/ Contains(field_lower, S_city)
        THEN (IF /\ Matches(<<Anchor("words"), Anchor("end")>>, Strip(text), FALSE)
                 /\ Len(Strip(text)) >= 3
              THEN 900 ELSE 300)
        ELSE IF IsAddressField(field_lower)
        THEN (IF /\ Search(<<Anchor("b"), Alt(StreetTypesOptionalDot), Anchor("b")>>,
                           text_lower, FALSE)
                 /\ HouseNumberSearch(text_lower)
              THEN 900 ELSE 300)
        ELSE IF Contains(field_lower, S_email) \/ Contains(field_lower, S_e_mail)
        THEN (IF (\E i \in 1..Len(text) : text[i] = "@") /\ DotAfterLastAt(text)
              THEN 1000 ELSE 300)
        ELSE IF Contains(field_lower, S_data) \/ Contains(field_lower, S_date)
        THEN (IF Matches(P_date, text, FALSE) THEN 1000 ELSE 300)
        ELSE 600

\* max(0, min(1, x)) in thousandths
Clip(x) == IF x < 0 THEN 0 ELSE IF x > 1000 THEN 1000 ELSE x

\* score_candidate, the semantic sub-score: candidate.get('similarity', 0.0),
\* rescaled when it is positive
SemanticScore(candidate) ==
    LET semantic_score == IF candidate.has_similarity THEN candidate.similarity ELSE 0
    IN  IF semantic_score > 0 THEN Clip((semantic_score + 1000) \div 2) ELSE semantic_score

\* the weights of score_candidate, in hundredths
W_base == 20
W_regex == 25
W_semantic == 25
W_positional == 15
W_validation == 15

\* ScorerValidator.score_candidate; the scores explored make the weighted sum
\* a whole number of thousandths
score_candidate(candidate, field_name, field_description, all_candidates) ==
    Clip((W_base * candidate.score
          + W_regex * _regex_validation(candidate, field_name, field_description)
          + W_semantic * SemanticScore(candidate)
          + W_positional * _positional_score(candidate, all_candidates)
          + W_validation * _validate_value(candidate.text, field_name, field_description))
         \div 100)

\* candidate_copy with candidate_copy['final_score'] = final_score
Scored(candidate, final_score) ==
    [none |-> FALSE, text |-> candidate.text, final_score |-> final_score,
     normalized |-> candidate.normalized, bbox |-> candidate.bbox,
     score |-> candidate.score, method |-> candidate.method,
     match_type |-> candidate.match_type,
     has_similarity |-> candidate.has_similarity, similarity |-> candidate.similarity]

\* a variant that takes the last maximal element
C19M_FirstMax(finals) ==
    CHOOSE k \in 1..Len(finals) :
        /\ \A j \in 1..Len(finals) : finals[j] <= finals[k]
        /\ \A j \in (k + 1)..Len(finals) : finals[j] < finals[k]

\* max(scored_candidates, key=...): the index of the first maximal element
FirstMax(finals) ==
    CHOOSE k \in 1..Len(finals) :
        /\ \A j \in 1..Len(finals) : finals[j] <= finals[k]
        /\ \A j \in 1..(k - 1) : finals[j] < finals[k]

\* the scored copy of the candidate at index best
BestOf(field_candidates, finals, best) == Scored(field_candidates[best], finals[best])

\* best = max(scored_candidates, key=lambda x: x['final_score'])
MaxScored(field_candidates, finals) == BestOf(field_candidates, finals, FirstMax(finals))

\* ScorerValidator.select_best_candidate
select_best_candidate(field_candidates, field_name, field_description) ==
    IF field_candidates = <<>> THEN NoCandidate
    ELSE MaxScored(field_candidates,
                   [i \in 1..Len(field_candidates) |->
                       score_candidate(field_candidates[i], field_name,
                                       field_description, field_candidates)])

-----------------------------------------------------------------------------
(* CandidateGenerator *)

\* generate_candidates(..., top_k: int = 5)
top_k == 5

\* a (pattern, match_type) pair; the candidate text is what the items first
\* to last matched (the named group the field selects, or the whole match)
Pattern(items, match_type, first, last) ==
    [items |-> items, match_type |-> match_type, first |-> first, last |-> last]

Whole(items, match_type) == Pattern(items, match_type, 1, Len(items))

\* (?:AC|AL|...|TO)
UfAlternatives ==
    <<<<"A", "C">>, <<"A", "L">>, <<"A", "P">>, <<"A", "M">>, <<"B", "A">>, <<"C", "E">>, <<"D", "F">>, <<"E", "S">>, <<"G", "O">>,
      <<"M", "A">>, <<"M", "T">>, <<"M", "S">>, <<"M", "G">>, <<"P", "A">>, <<"P", "B">>, <<"P", "R">>, <<"P", "E">>, <<"P", "I">>,
      <<"R", "J">>, <<"R", "N">>, <<"R", "S">>, <<"R", "O">>, <<"R", "R">>, <<"S", "C">>, <<"S", "P">>, <<"S", "E">>, <<"T", "O">>>>

S_telefone == <<"t", "e", "l", "e", "f", "o", "n", "e">>
S_celular == <<"c", "e", "l", "u", "l", "a", "r">>
S_postal == <<"p", "o", "s", "t", "a", "l">>
S_valor == <<"v", "a", "l", "o", "r">>
S_preco == <<"p", "r", "e", "ç", "o">>
S_money == <<"m", "o", "n", "e", "y">>
S_numero == <<"n", "u", "m", "e", "r", "o">>
S_numero_acute == <<"n", "ú", "m", "e", "r", "o">>
S_number == <<"n", "u", "m", "b", "e", "r">>

\* (?P<city>[A-Za-z...]+(?:\s+[A-Za-z...]+)*)\s*[,\-]\s*(?P<state>UF)
P_city_state ==
    <<Anchor("words"), Rep({"s"}, {}, 0, Unbounded), One({",", "-"}),
      Rep({"s"}, {}, 0, Unbounded), Alt(UfAlternatives)>>

\* (?P<address>\b{street_types}\s+[\w...\.\- ]+?\s*,?\s*\d+[\w\-\/]*?)
P_address ==
    <<Anchor("b"), Alt(StreetTypesOptionalDot), Rep({"s"}, {}, 1, Unbounded),
      Lazy({"w"}, {".", "-", " "}, 1, Unbounded), Rep({"s"}, {}, 0, Unbounded), Opt(","),
      Rep({"s"}, {}, 0, Unbounded), D(1, Unbounded), Lazy({"w"}, {"-", "/"}, 0, Unbounded)>>

\* the same followed by .*?\b\d{5}-?\d{3}\b
P_address_cep ==
    P_address \o <<Lazy({"."}, {}, 0, Unbounded), Anchor("b")>> \o P_cep \o <<Anchor("b")>>

P_date_slash == <<D(1, 2), One({"/"}), D(1, 2), One({"/"}), D(2, 4)>>
P_date_dash == <<D(1, 2), One({"-"}), D(1, 2), One({"-"}), D(2, 4)>>
P_number_2 == <<D(1, Unbounded), One({".", ","}), D(2, 2)>>
P_currency == <<One({"R"}), One({"$"}), Rep({"s"}, {}, 0, 1)>> \o P_number_2

When(cond, patterns) == IF cond THEN patterns ELSE <<>>

\* CandidateGenerator._get_regex_patterns
_get_regex_patterns(field_name, field_description) ==
    LET field_lower == Lower(field_name)
        desc_lower == Lower(field_description)
        In(hay, needle) == Contains(hay, needle)
    IN  When(In(field_lower, S_cpf) \/ In(desc_lower, S_cpf), <<Whole(P_cpf, "cpf")>>)
        \o When(In(field_lower, S_cnpj), <<Whole(P_cnpj, "cnpj")>>)
        \o When(In(field_lower, S_email) \/ In(desc_lower, S_e_mail),
                <<Whole(<<Anchor("b")>> \o P_email \o <<Anchor("b")>>, "email")>>)
        \o When(In(field_lower, S_telefone) \/ In(field_lower, S_phone)
                  \/ In(field_lower, S_celular),
                <<Whole(P_phone, "phone")>>)
        \o When(In(field_lower, S_cep) \/ In(desc_lower, S_cep) \/ In(desc_lower, S_postal),
                <<Whole(<<Anchor("b")>> \o P_cep \o <<Anchor("b")>>, "cep")>>)
        \o When(IsStateField(field_lower),
                <<Whole(<<Anchor("b"), Alt(UfAlternatives), Anchor("b")>>, "state")>>)
        \o When(In(field_lower, S_cidade) \/ In(field_lower, S_city),
                <<Pattern(P_city_state, "city_state", 1, 1)>>)
        \o When(IsAddressField(field_lower),
                <<Whole(P_address, "address"),
                  Pattern(P_address_cep, "address", 1, Len(P_address))>>)
        \o When(In(field_lower, S_data) \/ In(field_lower, S_date)
                  \/ In(field_lower, S_nascimento),
                <<Whole(P_date_slash, "date"), Whole(P_date_dash, "date")>>)
        \o When(In(field_lower, S_valor) \/ In(field_lower, S_preco)
                  \/ In(field_lower, S_money),
                <<Whole(P_currency, "currency"), Whole(P_number_2, "number")>>)
        \o When(In(field_lower, S_numero) \/ In(field_lower, S_numero_acute)
                  \/ In(field_lower, S_number),
                <<Whole(<<D(1, Unbounded)>>, "number")>>)

\* match.group() or match.group(name)
MatchedText(s, m, pattern) ==
    SubSeq(s, IF pattern.first = 1 THEN m.start ELSE m.ends[pattern.first - 1],
              m.ends[pattern.last] - 1)

\* the candidate of one match: the first block that holds the matched text
\* gives the bbox; <<>> when no block holds it
MatchCandidate(blocks, matched_text, pattern) ==
    LET holding == {b \in 1..Len(blocks) :
                       Contains(normalize_text(blocks[b]), Lower(matched_text))}
    IN  IF holding = {} THEN <<>>
        ELSE <<[text |-> matched_text,
                normalized |-> normalize_text(matched_text),
                bbox |-> CHOOSE b \in holding : \A c \in holding : b <= c,
                score |-> 400,
                method |-> "regex",
                match_type |-> pattern.match_type,
                has_similarity |-> FALSE,
                similarity |-> 0]>>

RECURSIVE MatchCandidates(_, _, _, _)
MatchCandidates(blocks, s, matches, pattern) ==
    IF matches = <<>> THEN <<>>
    ELSE MatchCandidate(blocks, MatchedText(s, Head(matches), pattern), pattern)
         \o MatchCandidates(blocks, s, Tail(matches), pattern)

RECURSIVE PatternCandidates(_, _, _)
PatternCandidates(blocks, s, patterns) ==
    IF patterns = <<>> THEN <<>>
    ELSE MatchCandidates(blocks, s, FindIter(Head(patterns).items, s, 1, TRUE), Head(patterns))
         \o PatternCandidates(blocks, s, Tail(patterns))

\* processed_data['normalized_full_text']
normalized_full_text(blocks) == normalize_text(JoinWith(blocks, <<" ">>))

\* CandidateGenerator._regex_candidates
_regex_candidates(blocks, field_name, field_description) ==
    PatternCandidates(blocks, normalized_full_text(blocks),
                      _get_regex_patterns(field_name, field_description))

\* 0.7 * similarities + 0.3 * label_similarities, in thousandths; the
\* similarities explored make it a whole number
CombinedScore(similarity, label_similarity) == (7 * similarity + 3 * label_similarity) \div 10

\* the indices of keys, a list of distinct <<score, rank>> pairs, from the
\* greatest pair to the least
OrderDescending(keys) ==
    LET Before(i, j) == \/ keys[i][1] > keys[j][1]
                        \/ keys[i][1] = keys[j][1] /\ keys[i][2] > keys[j][2]
    IN  [r \in 1..Len(keys) |->
            CHOOSE i \in 1..Len(keys) :
                Cardinality({j \in 1..Len(keys) : Before(j, i)}) = r - 1]

\* np.argsort(combined_scores)[::-1]: descending, the later of two equal scores first
ArgsortReversed(combined_scores) ==
    OrderDescending([i \in 1..Len(combined_scores) |-> <<combined_scores[i], i>>])

\* the candidates of the fragments top_indices, in that order
SemanticCandidates(blocks, similarities, combined_scores, top_indices) ==
    [n \in 1..Len(top_indices) |->
        [text |-> blocks[top_indices[n]],
         normalized |-> normalize_text(blocks[top_indices[n]]),
         bbox |-> top_indices[n],
         score |-> combined_scores[top_indices[n]],
         method |-> "semantic",
         match_type |-> "",
         has_similarity |-> TRUE,
         similarity |-> similarities[top_indices[n]]]]

\* the fragments ranked by combined score, the best top_k of them
TopCandidates(blocks, similarities, combined_scores) ==
    SemanticCandidates(blocks, similarities, combined_scores,
                       SliceTo(ArgsortReversed(combined_scores), top_k))

\* a variant that drops the fragments whose cosine to the query is below 0.5
C12M__semantic_search(blocks, similarities, label_similarities) ==
    LET Close(candidate) == candidate.similarity >= 500
    IN  IF blocks = <<>> THEN <<>>
        ELSE SelectSeq(TopCandidates(blocks, similarities,
                                     [b \in 1..Len(blocks) |->
                                         CombinedScore(similarities[b], label_similarities[b])]),
                       Close)

\* CandidateGenerator._semantic_search once the embeddings are there
_semantic_search(blocks, similarities, label_similarities) ==
    IF blocks = <<>> THEN <<>>
    ELSE TopCandidates(blocks, similarities,
                       [b \in 1..Len(blocks) |->
                           CombinedScore(similarities[b], label_similarities[b])])

\* CandidateGenerator._deduplicate_candidates
RECURSIVE Deduplicate(_, _)
Deduplicate(field_candidates, seen) ==
    IF field_candidates = <<>> THEN [i \in 1..Len(seen) |-> seen[i][2]]
    ELSE LET candidate == Head(field_candidates)
             key == candidate.normalized
         IN  Deduplicate(Tail(field_candidates),
                         IF ~Has(seen, key) \/ candidate.score > Get(seen, key).score
                         THEN Put(seen, key, candidate) ELSE seen)

\* a variant that keeps the first candidate of each normalized text
C22M__deduplicate_candidates(field_candidates) ==
    SelectSeq([i \in 1..Len(field_candidates) |->
                  IF \A j \in 1..(i - 1) :
                        field_candidates[j].normalized # field_candidates[i].normalized
                  THEN field_candidates[i]
                  ELSE <<>>],
              LAMBDA candidate : candidate # <<>>)

_deduplicate_candidates(field_candidates) == Deduplicate(field_candidates, EmptyDict)

\* sorted(field_candidates, key=lambda x: x['score'], reverse=True)
Reordered(field_candidates, order) ==
    [r \in 1..Len(field_candidates) |-> field_candidates[order[r]]]

SortedByScore(field_candidates) ==
    Reordered(field_candidates,
              OrderDescending([i \in 1..Len(field_candidates) |->
                                  <<field_candidates[i].score, 0 - i>>]))

\* generate_candidates, lines 63 to 67: deduplicate, sort by score, keep top_k
RankCandidates(field_candidates) ==
    SliceTo(SortedByScore(_deduplicate_candidates(field_candidates)), top_k)

\* generate_candidates, the body of the loop over the schema
FieldCandidates(blocks, field_name, field_description, similarities, label_similarities) ==
    RankCandidates(_regex_candidates(blocks, field_name, field_description)
                   \o _semantic_search(blocks, similarities, label_similarities))

\* embedding_model.encode([label])[0]: the embedding of a label, a function of it
Embed(doc_label) == <<"embedding of", doc_label>>

\* is the label missing from the cache (label not in self.label_cache)
CacheMiss(cache, doc_label) == ~Has(cache, doc_label)

\* a variant whose cache keeps the last label only
C18M_StoreLabel(cache, doc_label, label_embedding) == <<<<doc_label, label_embedding>>>>

\* self.label_cache[label] = label_embedding
StoreLabel(cache, doc_label, label_embedding) == Put(cache, doc_label, label_embedding)

\* does the encode call of some field's _semantic_search raise
SearchRaises(blocks, schema, oracle) ==
    /\ schema # <<>>
    /\ \/ oracle.fails = "query"
       \/ oracle.fails = "blocks" /\ blocks # <<>>

\* CandidateGenerator.generate_candidates; oracle is what the embedding service
\* answers: whether an encode call raises, and the cosines of the fragments
\* to each field's query and to the label
generate_candidates(blocks, doc_label, schema, cache, oracle) ==
    IF CacheMiss(cache, doc_label) /\ oracle.fails = "label"
    THEN [raised |-> TRUE, candidates |-> EmptyDict, label_cache |-> cache]
    ELSE LET cached == IF CacheMiss(cache, doc_label)
                       THEN StoreLabel(cache, doc_label, Embed(doc_label))
                       ELSE cache
         IN  IF SearchRaises(blocks, schema, oracle)
             THEN [raised |-> TRUE, candidates |-> EmptyDict, label_cache |-> cached]
             ELSE [raised |-> FALSE,
                   candidates |->
                       [i \in 1..Len(schema) |->
                           <<schema[i][1],
                             FieldCandidates(blocks, schema[i][1], schema[i][2],
                                             oracle.query[i], oracle.label)>>],
                   label_cache |-> cached]

-----------------------------------------------------------------------------
(* PDFExtractor.extract as a state machine: the fragments are parsed; then   *)
(* generate_candidates, select_best_candidate for each field, and            *)
(* process_extraction run one after the other.                               *)

\* the fragments a document may hold
T_cpf_line == <<"C", "P", "F", ":", " ", "1", "2", "3", ".", "4", "5", "6", ".", "7", "8", "9", "-", "0", "9">>
T_city_line == <<"R", "i", "o", " ", "-", " ", "R", "J">>
T_title == <<"F", "a", "t", "u", "r", "a", " ", "7">>
T_name == <<"A", "n", "a">>

BlockLists ==
    {<<>>, <<T_title>>, <<T_cpf_line>>, <<T_city_line>>, <<T_name>>,
     <<T_title, T_cpf_line>>, <<T_name, T_title>>, <<T_city_line, T_name>>}

\* the schemas of the documents
ExtractSchemas ==
    {<<>>, <<N_cidade>>, <<N_cpf>>, <<N_nome>>, <<N_cidade, N_cpf>>, <<N_nome, N_cidade>>}

\* cosines, in thousandths
SimilarityValues == {-400, 200, 1000}

LabelSimilarityValues == {0, 600}

\* what the embedding service may answer for n_fields queries and n_blocks
\* fragments: every cosine when no call raises, one answer for each failure
Oracles(n_fields, n_blocks) ==
    {[fails |-> "never", query |-> q, label |-> [b \in 1..n_blocks |-> l]] :
        q \in [1..n_fields -> [1..n_blocks -> SimilarityValues]],
        l \in LabelSimilarityValues}
    \cup {[fails |-> f,
           query |-> [i \in 1..n_fields |-> [b \in 1..n_blocks |-> 200]],
           label |-> [b \in 1..n_blocks |-> 0]] : f \in {"label", "query", "blocks"}}

\* a document has been parsed and preprocessed (extract, lines 36 to 40)
InitExtract ==
    /\ phase = "parsed"
    /\ text_blocks \in BlockLists
    /\ full_text = JoinWith(text_blocks, <<" ">>)
    /\ label \in Labels
    /\ \E names \in ExtractSchemas :
          /\ extraction_schema = SchemaOf(names)
          /\ llm_reply \in BasicReplies(names)
          /\ embedding \in Oracles(Len(names), Len(text_blocks))
    /\ candidates = EmptyDict
    /\ label_cache = EmptyDict
    /\ field_results = EmptyDict
    /\ final_values = EmptyDict
    /\ accepted = EmptyDict
    /\ pending_fields = <<>>
    /\ path = EmptyDict
    /\ llm_requests = <<>>
    /\ used_llm_last_call = FALSE
    /\ rescored = 0
    /\ NoCalls /\ NoFunction

\* extract, lines 43 to 45; an exception of the embedding service leaves extract
GenerateCandidates ==
    /\ phase = "parsed"
    /\ \E r \in {generate_candidates(text_blocks, label, extraction_schema,
                                     label_cache, embedding)} :
          /\ phase' = IF r.raised THEN "raised" ELSE "generated"
          /\ candidates' = r.candidates
          /\ label_cache' = r.label_cache
    /\ UNCHANGED <<field_results, extraction_schema, label, full_text, final_values,
                   accepted, pending_fields, path, llm_requests, llm_reply,
                   used_llm_last_call, rescored, text_blocks, embedding,
                   generate_calls, vars_function>>

\* extract, lines 48 to 56
BestCandidates(field_candidates, schema) ==
    [i \in 1..Len(field_candidates) |->
        <<field_candidates[i][1],
          select_best_candidate(field_candidates[i][2], field_candidates[i][1],
                                Get(schema, field_candidates[i][1]))>>]

SelectBestCandidates ==
    /\ phase = "generated"
    /\ field_results' = BestCandidates(candidates, extraction_schema)
    /\ phase' = "ready"
    /\ UNCHANGED <<extraction_schema, label, full_text, final_values, accepted,
                   pending_fields, path, llm_requests, llm_reply, used_llm_last_call,
                   rescored, vars_generator, generate_calls, vars_function>>

NextExtract == GenerateCandidates \/ SelectBestCandidates \/ ProcessExtraction

SpecExtract == InitExtract /\ [][NextExtract]_vars

-----------------------------------------------------------------------------
(* select_best_candidate and process_extraction on the candidate lists that *)
(* generate_candidates can hand over for one field: at most MaxCandidates   *)
(* candidates, no two with the same normalized text, in falling score.      *)

N_cpf_titular == <<"C", "P", "F", "_", "t", "i", "t", "u", "l", "a", "r">>

T_digits_11 == <<"1", "2", "3", "4", "5", "6", "7", "8", "9", "0", "9">>
T_zeros_11 == <<"0", "0", "0", "0", "0", "0", "0", "0", "0", "0", "0">>
T_digits_10 == <<"1", "2", "3", "4", "5", "6", "7", "8", "9", "0">>
T_cpf_dotted == <<"1", "2", "3", ".", "4", "5", "6", ".", "7", "8", "9", "-", "0", "9">>
T_rio == <<"r", "i", "o">>
T_bia == <<"B", "i", "a">>

\* a candidate of _regex_candidates: the text the pattern matched
RegexCandidate(text, match_type) ==
    [text |-> text, normalized |-> normalize_text(text), bbox |-> 1, score |-> 400,
     method |-> "regex", match_type |-> match_type,
     has_similarity |-> FALSE, similarity |-> 0]

\* a candidate of _semantic_search: a fragment and its two cosines
SemanticCandidate(text, similarity, label_similarity) ==
    [text |-> text, normalized |-> normalize_text(text), bbox |-> 1,
     score |-> CombinedScore(similarity, label_similarity),
     method |-> "semantic", match_type |-> "",
     has_similarity |-> TRUE, similarity |-> similarity]

\* the candidates a field may get
CandidatePool(name) ==
    (IF Contains(Lower(name), S_cpf)
     THEN {RegexCandidate(T_digits_11, "cpf"), RegexCandidate(T_cpf_dotted, "cpf"),
           SemanticCandidate(T_digits_11, 1000, 0), SemanticCandidate(T_zeros_11, 0, 0),
           SemanticCandidate(T_digits_10, 200, 600)}
     ELSE IF Contains(Lower(name), S_cidade)
     THEN {RegexCandidate(T_rio, "city_state"), SemanticCandidate(T_city_line, 1000, 600)}
     ELSE {SemanticCandidate(T_city_line, 0, 0)})
    \cup {SemanticCandidate(T_name, 200, 600), SemanticCandidate(T_bia, 200, 600),
          SemanticCandidate(T_title, -400, 0), SemanticCandidate(T_title, -1000, 0)}

MaxCandidates == 3

\* is the list one that generate_candidates returns: deduplicated, sorted
IsGenerated(field_candidates) ==
    /\ \A i, j \in 1..Len(field_candidates) :
          i # j => field_candidates[i].normalized # field_candidates[j].normalized
    /\ \A i \in 1..(Len(field_candidates) - 1) :
          field_candidates[i].score >= field_candidates[i + 1].score

CandidateLists(name) ==
    {q \in UNION {[1..n -> CandidatePool(name)] : n \in 0..MaxCandidates} : IsGenerated(q)}

ScoreFields == {N_cpf, N_cpf_titular, N_cidade, N_nome}

\* the fragment a candidate comes from
FragmentOf(candidate) == IF candidate.text = T_rio THEN T_city_line ELSE candidate.text

\* generate_candidates has returned the candidates of the one field of the
\* schema; the candidates carry the cosines the embedding service answered
InitScore ==
    /\ phase = "generated"
    /\ \E name \in ScoreFields :
          /\ extraction_schema = SchemaOf(<<name>>)
          /\ llm_reply \in BasicReplies(<<name>>)
          /\ \E q \in CandidateLists(name) :
                /\ candidates = <<<<name, q>>>>
                /\ text_blocks = [i \in 1..Len(q) |-> FragmentOf(q[i])]
    /\ label \in Labels
    /\ full_text = JoinWith(text_blocks, <<" ">>)
    /\ embedding = [fails |-> "never", query |-> <<>>, label |-> <<>>]
    /\ label_cache = StoreLabel(EmptyDict, label, Embed(label))
    /\ field_results = EmptyDict
    /\ final_values = EmptyDict
    /\ accepted = EmptyDict
    /\ pending_fields = <<>>
    /\ path = EmptyDict
    /\ llm_requests = <<>>
    /\ used_llm_last_call = FALSE
    /\ rescored = 0
    /\ NoCalls /\ NoFunction

NextScore == SelectBestCandidates \/ ProcessExtraction

SpecScore == InitScore /\ [][NextScore]_vars

-----------------------------------------------------------------------------
(* _normalize_value and normalize_text applied on their own, and again to   *)
(* their own result.                                                         *)

\* no extraction is running
NoExtraction ==
    /\ phase = "idle"
    /\ extraction_schema = EmptyDict
    /\ field_results = EmptyDict
    /\ label = <<>>
    /\ full_text = <<>>
    /\ llm_reply = ReplyRaises
    /\ final_values = EmptyDict
    /\ accepted = EmptyDict
    /\ pending_fields = <<>>
    /\ path = EmptyDict
    /\ llm_requests = <<>>
    /\ used_llm_last_call = FALSE
    /\ rescored = 0

N_cep_entrega == <<"C", "E", "P", "_", "e", "n", "t", "r", "e", "g", "a">>

T_cep_raw == <<"0", "1", "3", "1", "0", "1", "0", "0">>

\* runs of 8 digits
CepDigits == [1..8 -> {"0", "1"}] \cup {T_cep_raw}

\* postal codes written DDDDDDDD and DDDDD-DDD
CepValues == CepDigits \cup {SliceTo(d, 5) \o <<"-">> \o SliceFrom(d, 5) : d \in CepDigits}

MaxTextLen == 4

\* a letter, a digit, whitespace, allowed punctuation, a special character
NormalizeAlphabet == {"A", "1", " ", "-", "@"}

NormalizeTexts == UNION {[1..n -> NormalizeAlphabet] : n \in 0..MaxTextLen}

FunctionArguments ==
    {[function |-> "_normalize_value", field_name |-> f, value |-> v] :
        f \in {N_cep, N_cep_entrega}, v \in CepValues}
    \cup {[function |-> "normalize_text", field_name |-> <<>>, value |-> t] :
             t \in NormalizeTexts}

InitFunction ==
    /\ NoExtraction /\ NoDocument /\ NoCalls
    /\ fn_arg \in FunctionArguments
    /\ fn_out = <<>>

\* the value the next application takes: the argument, then the last result
NextInput == IF fn_out = <<>> THEN fn_arg.value ELSE fn_out[Len(fn_out)]

ApplyNormalizeValue ==
    /\ fn_arg.function = "_normalize_value"
    /\ Len(fn_out) < 2
    /\ fn_out' = Append(fn_out, _normalize_value(NextInput, fn_arg.field_name))
    /\ UNCHANGED <<vars_engine, vars_generator, generate_calls, fn_arg>>

ApplyNormalizeText ==
    /\ fn_arg.function = "normalize_text"
    /\ Len(fn_out) < 2
    /\ fn_out' = Append(fn_out, normalize_text(NextInput))
    /\ UNCHANGED <<vars_engine, vars_generator, generate_calls, fn_arg>>

NextFunction == ApplyNormalizeValue \/ ApplyNormalizeText

SpecFunction == InitFunction /\ [][NextFunction]_vars

-----------------------------------------------------------------------------
(* generate_candidates called from several threads on one CandidateGenerator: *)
(* the calls share label_cache and interleave between their statements.       *)

L_fatura == <<"f", "a", "t", "u", "r", "a">>
L_recibo == <<"r", "e", "c", "i", "b", "o">>

CallLabels == {L_fatura, L_recibo}

MaxCalls == 3

\* a call that has just entered generate_candidates
NewCall(doc_label) == [pc |-> "check", label |-> doc_label, label_embedding |-> <<>>]

InitCache ==
    /\ NoExtraction /\ NoDocument /\ NoFunction
    /\ generate_calls = <<>>

UnchangedByCalls == UNCHANGED <<vars_engine, text_blocks, embedding, candidates, vars_function>>

\* a thread calls generate_candidates
StartCall ==
    /\ Len(generate_calls) < MaxCalls
    /\ \E doc_label \in CallLabels :
          generate_calls' = Append(generate_calls, NewCall(doc_label))
    /\ UNCHANGED label_cache
    /\ UnchangedByCalls

\* the calls that are at the statement pc
CallsAt(pc) == {c \in 1..Len(generate_calls) : generate_calls[c].pc = pc}

\* if label not in self.label_cache
CheckCache ==
    /\ \E c \in CallsAt("check") :
          generate_calls' = [generate_calls EXCEPT
              ![c].pc = IF CacheMiss(label_cache, generate_calls[c].label)
                        THEN "encode" ELSE "read"]
    /\ UNCHANGED label_cache
    /\ UnchangedByCalls

\* label_embedding = self.embedding_model.encode([label])[0]
EncodeLabel ==
    /\ \E c \in CallsAt("encode") :
          generate_calls' = [generate_calls EXCEPT
              ![c].pc = "store",
              ![c].label_embedding = Embed(generate_calls[c].label)]
    /\ UNCHANGED label_cache
    /\ UnchangedByCalls

\* the encode call raises and the call leaves generate_candidates
EncodeRaises ==
    /\ \E c \in CallsAt("encode") :
          generate_calls' = [generate_calls EXCEPT ![c].pc = "raised"]
    /\ UNCHANGED label_cache
    /\ UnchangedByCalls

\* self.label_cache[label] = label_embedding
StoreEmbedding ==
    /\ \E c \in CallsAt("store") :
          /\ label_cache' = StoreLabel(label_cache, generate_calls[c].label,
                                       generate_calls[c].label_embedding)
          /\ generate_calls' = [generate_calls EXCEPT ![c].pc = "search"]
    /\ UnchangedByCalls

\* else: label_embedding = self.label_cache[label]
ReadCache ==
    /\ \E c \in CallsAt("read") :
          generate_calls' = [generate_calls EXCEPT
              ![c].pc = IF Has(label_cache, generate_calls[c].label)
                        THEN "search" ELSE "raised",
              ![c].label_embedding = GetOr(label_cache, generate_calls[c].label, <<>>)]
    /\ UNCHANGED label_cache
    /\ UnchangedByCalls

\* the loop over the schema, which hands label_embedding to _semantic_search,
\* and the return
SearchAndReturn ==
    /\ \E c \in CallsAt("search") :
          generate_calls' = [generate_calls EXCEPT ![c].pc = "returned"]
    /\ UNCHANGED label_cache
    /\ UnchangedByCalls

NextCache ==
    \/ StartCall
    \/ CheckCache
    \/ EncodeLabel
    \/ EncodeRaises
    \/ StoreEmbedding
    \/ ReadCache
    \/ SearchAndReturn

SpecCache == InitCache /\ [][NextCache]_vars

-----------------------------------------------------------------------------
(* The end of generate_candidates applied on its own to the candidates the  *)
(* two sources give for one field: pattern candidates, then the candidates  *)
(* _semantic_search returns for the fragments of a document.                *)

T_rio_title == <<"R", "i", "o">>
T_rio_upper == <<"R", "I", "O">>
T_sao == <<"S", "a", "o">>
T_x == <<"x">>

\* the fragments a document may hold, in their order, each with its cosine to
\* the query and to the label
RankFragments ==
    <<[text |-> T_rio_upper, similarity |-> 200, label_similarity |-> 600],
      [text |-> T_name, similarity |-> 200, label_similarity |-> 600],
      [text |-> T_title, similarity |-> -400, label_similarity |-> 0],
      [text |-> T_rio_title, similarity |-> 1000, label_similarity |-> 600],
      [text |-> T_bia, similarity |-> 200, label_similarity |-> 600],
      [text |-> T_x, similarity |-> 0, label_similarity |-> 0],
      [text |-> T_sao, similarity |-> 1000, label_similarity |-> 0]>>

\* the fragments of RankFragments at the indices chosen, in their order
FragmentsAt(chosen) ==
    SelectSeq([i \in 1..Len(RankFragments) |-> IF i \in chosen THEN RankFragments[i] ELSE <<>>],
              LAMBDA fragment : fragment # <<>>)

\* what _semantic_search returns for these fragments
SemanticPart(fragments) ==
    _semantic_search([b \in 1..Len(fragments) |-> fragments[b].text],
                     [b \in 1..Len(fragments) |-> fragments[b].similarity],
                     [b \in 1..Len(fragments) |-> fragments[b].label_similarity])

MaxRegex == 2

\* the matches of a city pattern
RegexPool == {RegexCandidate(T_rio, "city_state"), RegexCandidate(<<"s", "a", "o">>, "city_state"),
              RegexCandidate(<<"b", "i", "a">>, "city_state")}

RegexParts == UNION {[1..n -> RegexPool] : n \in 0..MaxRegex}

InitRank ==
    /\ NoExtraction /\ NoDocument /\ NoCalls
    /\ \E regex_part \in RegexParts : \E chosen \in SUBSET (1..Len(RankFragments)) :
          fn_arg = [function |-> "rank",
                    field_candidates |-> regex_part \o SemanticPart(FragmentsAt(chosen))]
    /\ fn_out = <<>>

\* field_candidates = self._deduplicate_candidates(field_candidates), the sort
\* and the cut to top_k
ApplyRank ==
    /\ fn_out = <<>>
    /\ fn_out' = <<RankCandidates(fn_arg.field_candidates)>>
    /\ UNCHANGED <<vars_engine, vars_generator, generate_calls, fn_arg>>

SpecRank == InitRank /\ [][ApplyRank]_vars

-----------------------------------------------------------------------------
(* Preprocessor.group_blocks applied on its own. A block is its text and    *)
(* the left, top and right of its bbox.                                     *)

max_distance == 20

\* does key (top, left) of block a come before that of block b
KeyBefore(a, b) == a.top < b.top \/ (a.top = b.top /\ a.left < b.left)

\* sorted(blocks, key=lambda b: (b.bbox[1], b.bbox[0])): stable
SortBlocks(blocks) ==
    LET Before(i, j) == \/ KeyBefore(blocks[i], blocks[j])
                        \/ ~KeyBefore(blocks[j], blocks[i]) /\ i < j
    IN  [r \in 1..Len(blocks) |->
            blocks[CHOOSE i \in 1..Len(blocks) :
                       Cardinality({j \in 1..Len(blocks) : Before(j, i)}) = r - 1]]

\* a variant that takes a gap of exactly twice max_distance as the same line
C23M_SameLine(block, last_block) ==
    LET vertical_dist == IF block.top >= last_block.top
                         THEN block.top - last_block.top
                         ELSE last_block.top - block.top
        horizontal_dist == block.left - last_block.right
    IN  vertical_dist < max_distance /\ horizontal_dist <= max_distance * 2

\* is block on the line of last_block (lines 56 to 61)
SameLine(block, last_block) ==
    LET vertical_dist == IF block.top >= last_block.top
                         THEN block.top - last_block.top
                         ELSE last_block.top - block.top
        horizontal_dist == block.left - last_block.right
    IN  vertical_dist < max_distance /\ horizontal_dist < max_distance * 2

\* the loop over sorted_blocks[1:] and the last append
RECURSIVE GroupLoop(_, _, _)
GroupLoop(rest, groups, current_group) ==
    IF rest = <<>> THEN Append(groups, current_group)
    ELSE IF SameLine(Head(rest), current_group[Len(current_group)])
    THEN GroupLoop(Tail(rest), groups, Append(current_group, Head(rest)))
    ELSE GroupLoop(Tail(rest), Append(groups, current_group), <<Head(rest)>>)

\* Preprocessor.group_blocks
GroupSorted(sorted_blocks) == GroupLoop(Tail(sorted_blocks), <<>>, <<Head(sorted_blocks)>>)

group_blocks(blocks) == IF blocks = <<>> THEN <<>> ELSE GroupSorted(SortBlocks(blocks))

MaxBlocks == 3

BlockWidth == 20

\* tops one line apart and less, lefts a gap of 2 * max_distance apart and less
BlockTops == {0, 19, 20}
BlockLefts == {0, 59, 60}

BlockTexts == <<"a", "b", "c", "d", "e">>

\* the lists of at most MaxBlocks blocks, the n-th with the n-th text
PositionedBlocks ==
    {[n \in 1..Len(at) |-> [text |-> BlockTexts[n], left |-> at[n][1], top |-> at[n][2],
                            right |-> at[n][1] + BlockWidth]] :
        at \in UNION {[1..k -> BlockLefts \X BlockTops] : k \in 0..MaxBlocks}}

InitGroup ==
    /\ NoExtraction /\ NoDocument /\ NoCalls
    /\ \E blocks \in PositionedBlocks : fn_arg = [function |-> "group_blocks", blocks |-> blocks]
    /\ fn_out = <<>>

ApplyGroupBlocks ==
    /\ fn_out = <<>>
    /\ fn_out' = <<group_blocks(fn_arg.blocks)>>
    /\ UNCHANGED <<vars_engine, vars_generator, generate_calls, fn_arg>>

SpecGroup == InitGroup /\ [][ApplyGroupBlocks]_vars

-----------------------------------------------------------------------------
(* _normalize_value applied on its own to the values of a date field.       *)

N_date_of_birth == <<"d", "a", "t", "e", "_", "o", "f", "_", "b", "i", "r", "t", "h">>

DateDays == {<<"1">>, <<"0", "1">>, <<"3", "1">>}
DateMonths == {<<"2">>, <<"1", "2">>}
DateYears == {<<"0", "0">>, <<"5", "0">>, <<"5", "1">>, <<"9", "9">>, <<"0", "5", "0">>, <<"9", "9", "9">>, <<"1", "9", "9", "9">>}
DateSeparators == {"/", "-"}
DateLabels == {<<>>, <<"N", "a", "s", "c", "i", "m", "e", "n", "t", "o", ":", " ">>, <<"D", "a", "t", "a", ":", " ">>}

\* D{1,2} sep D{1,2} sep D{2,4}, behind a label word and colon or not
DateValues ==
    {l \o d \o <<s>> \o m \o <<s>> \o y :
        l \in DateLabels, d \in DateDays, s \in DateSeparators, m \in DateMonths, y \in DateYears}

InitDate ==
    /\ NoExtraction /\ NoDocument /\ NoCalls
    /\ \E f \in {N_data, N_date_of_birth} : \E v \in DateValues :
          fn_arg = [function |-> "_normalize_value", field_name |-> f, value |-> v]
    /\ fn_out = <<>>

SpecDate == InitDate /\ [][ApplyNormalizeValue]_vars

-----------------------------------------------------------------------------
(* TextExtractor.extract: the preferred parser, then the other one when the *)
(* preferred one is PyMuPDF and has raised. fn_arg holds what each parser   *)
(* does with the bytes, fn_out the parsers run so far and the result.       *)

\* a parser raises with a message, or returns its blocks
ParserRaises(message) == [raises |-> TRUE, message |-> message, blocks |-> <<>>]
ParserReturns(blocks) == [raises |-> FALSE, message |-> "", blocks |-> blocks]

MaxParsed == 2

ParserBehaviours ==
    {ParserRaises(m) : m \in {"not a PDF", "broken xref"}}
    \cup {ParserReturns(b) : b \in UNION {[1..n -> {T_name, T_title, T_cpf_line}] : n \in 0..MaxParsed}}

\* the parser extract prefers, and the one it falls back to
Preferred(use_pymupdf) == IF use_pymupdf THEN "pymupdf" ELSE "pdfplumber"

\* a variant that runs PyMuPDF whatever parser is asked for
C27M_RunParser(parser) == fn_arg.pymupdf

\* _extract_pymupdf or _extract_pdfplumber on the bytes
RunParser(parser) == IF parser = "pymupdf" THEN fn_arg.pymupdf ELSE fn_arg.pdfplumber

InitParse ==
    /\ NoExtraction /\ NoDocument /\ NoCalls
    /\ \E p, q \in ParserBehaviours : \E u \in BOOLEAN :
          fn_arg = [function |-> "extract", use_pymupdf |-> u, pymupdf |-> p, pdfplumber |-> q]
    /\ fn_out = [pc |-> "try", ran |-> <<>>, blocks |-> <<>>, message |-> ""]

\* lines 37 to 41: the preferred parser runs
TryPreferred ==
    /\ fn_out.pc = "try"
    /\ \E r \in {RunParser(Preferred(fn_arg.use_pymupdf))} :
          fn_out' = [pc |-> IF r.raises THEN "except" ELSE "returned",
                     ran |-> Append(fn_out.ran, Preferred(fn_arg.use_pymupdf)),
                     blocks |-> r.blocks,
                     message |-> r.message]
    /\ UNCHANGED <<vars_engine, vars_generator, generate_calls, fn_arg>>

\* the message of the exception that leaves extract when pdfplumber has failed too
FailedMessage(message) == <<"Failed to extract text from PDF: ", message>>

\* lines 42 to 50: the handler of the preferred parser's exception
HandleException ==
    /\ fn_out.pc = "except"
    /\ IF fn_arg.use_pymupdf
       THEN \E r \in {RunParser("pdfplumber")} :
               fn_out' = [pc |-> IF r.raises THEN "raised" ELSE "returned",
                          ran |-> Append(fn_out.ran, "pdfplumber"),
                          blocks |-> r.blocks,
                          message |-> IF r.raises THEN FailedMessage(fn_out.message) ELSE ""]
       ELSE fn_out' = [fn_out EXCEPT !.pc = "raised"]
    /\ UNCHANGED <<vars_engine, vars_generator, generate_calls, fn_arg>>

NextParse == TryPreferred \/ HandleException

SpecParse == InitParse /\ [][NextParse]_vars

-----------------------------------------------------------------------------
(* The pattern source on an email field: extract_features builds the text   *)
(* that _regex_candidates searches. fn_out holds normalized_full_text, then *)
(* the candidates of the field.                                             *)

N_email == <<"e", "m", "a", "i", "l">>
N_Email_contato == <<"E", "m", "a", "i", "l", "_", "c", "o", "n", "t", "a", "t", "o">>

T_email == <<"a", "n", "a", "@", "x", ".", "c", "o">>
T_email_upper == <<"B", "@", "Y", ".", "O", "R", "G">>
T_email_label == <<"e", "-", "m", "a", "i", "l", ":">>
T_istanbul == <<CapitalDottedI, "s", "t">>
T_price == <<"R", "$", " ", "5">>

EmailFragments == {T_email, T_email_upper, T_email_label, T_istanbul, T_price, T_name}

MaxEmailBlocks == 2

EmailBlockLists == UNION {[1..n -> EmailFragments] : n \in 0..MaxEmailBlocks}

InitEmail ==
    /\ NoExtraction /\ NoDocument /\ NoCalls
    /\ \E blocks \in EmailBlockLists : \E name \in {N_email, N_Email_contato} :
          fn_arg = [function |-> "_regex_candidates", blocks |-> blocks,
                    field_name |-> name, field_description |-> Describe(name)]
    /\ fn_out = <<>>

\* extract_features, line 110
ExtractFeatures ==
    /\ fn_arg.function = "_regex_candidates"
    /\ fn_out = <<>>
    /\ fn_out' = <<normalized_full_text(fn_arg.blocks)>>
    /\ UNCHANGED <<vars_engine, vars_generator, generate_calls, fn_arg>>

\* _regex_candidates on the features of the document
ApplyRegexCandidates ==
    /\ fn_arg.function = "_regex_candidates"
    /\ Len(fn_out) = 1
    /\ fn_out' = Append(fn_out, _regex_candidates(fn_arg.blocks, fn_arg.field_name,
                                                  fn_arg.field_description))
    /\ UNCHANGED <<vars_engine, vars_generator, generate_calls, fn_arg>>

NextEmail == ExtractFeatures \/ ApplyRegexCandidates

SpecEmail == InitEmail /\ [][NextEmail]_vars

-----------------------------------------------------------------------------
(* Properties *)

\* x is an element of the list q
InList(x, q) == \E i \in 1..Len(q) : q[i] = x

\* the fields of the call that has been made, with their candidates
FieldIndex == 1..Len(field_results)
NameAt(i) == field_results[i][1]
CandidateAt(i) == field_results[i][2]

Called == phase # "ready"

Text_cpf_formatted == <<"1", "2", "3", ".", "4", "5", "6", ".", "7", "8", "9", "-", "0", "9">>

\* C1: in one call of process_extraction the service is invoked exactly once
\* when some field is pending and not at all when none is, whatever the
\* number of pending fields.
C1_FallbackOnceOrNever ==
    Called => Len(llm_requests) = (IF pending_fields # <<>> THEN 1 ELSE 0)

C1_Witness ==
    phase = "returned" /\ Len(pending_fields) >= 2 /\ Len(llm_requests) = 1

\* C2: the mapping returned has a key for every schema field: each field is
\* either accepted locally or pending, and a pending field the reply omits
\* gets the empty string.
C2_EveryFieldHasValue ==
    Called =>
        /\ phase = "returned"
        /\ \A f \in KeySet(extraction_schema) :
              /\ Has(final_values, f)
              /\ Has(accepted, f) # InList(f, pending_fields)
              /\ (InList(f, pending_fields) /\ llm_reply.kind = "object"
                    /\ ~Has(llm_reply.object, f))
                 => Get(final_values, f) = Str(<<>>)

C2_Witness ==
    /\ phase = "returned"
    /\ Len(extraction_schema) = 2
    /\ llm_reply.kind = "object"
    /\ \E f \in KeySet(extraction_schema) :
          /\ InList(f, pending_fields)
          /\ ~Has(llm_reply.object, f)
          /\ Get(final_values, f) = Str(<<>>)
    /\ \E f \in KeySet(extraction_schema) :
          InList(f, pending_fields) /\ Has(llm_reply.object, f)

\* C3: every value of the mapping returned is a string, never null, for every
\* JSON object the service may return.
C3_EveryValueIsString ==
    phase = "returned" => \A i \in 1..Len(final_values) : final_values[i][2].type = "str"

\* C4: when the call to the service fails (the request raises, or the content
\* is not JSON) process_extraction still returns: every pending field maps to
\* the empty string and every accepted field keeps its value.
C4_FailureDegradesToEmpty ==
    (Called /\ llm_reply.kind \in {"raises", "not_json"}) =>
        /\ phase = "returned"
        /\ KeySet(final_values) = KeySet(extraction_schema)
        /\ \A f \in KeySet(extraction_schema) :
              IF InList(f, pending_fields)
              THEN Get(final_values, f) = Str(<<>>)
              ELSE Has(accepted, f) /\ Get(final_values, f) = Get(accepted, f)

C4_Witness ==
    /\ phase = "returned"
    /\ llm_reply.kind = "not_json"
    /\ Len(llm_requests) = 1
    /\ \E f, g \in KeySet(extraction_schema) :
          /\ InList(f, pending_fields) /\ Get(final_values, f) = Str(<<>>)
          /\ Has(accepted, g) /\ Get(final_values, g) = Get(accepted, g)
          /\ Get(accepted, g) # Str(<<>>)

\* C5: a field whose result is None is always in the fallback batch of the
\* call, and is never given a locally computed value.
C5_AbsentGoesToFallback ==
    Called =>
        \A i \in FieldIndex :
            CandidateAt(i).none =>
                /\ InList(NameAt(i), pending_fields)
                /\ ~Has(accepted, NameAt(i))
                /\ Len(llm_requests) = 1
                /\ Has(llm_requests[1].fields, NameAt(i))
                /\ ~Has(llm_requests[1].extracted_context, NameAt(i))

C5_Witness ==
    /\ phase = "returned"
    /\ \E i, j \in FieldIndex :
          /\ CandidateAt(i).none /\ InList(NameAt(i), pending_fields)
          /\ ~CandidateAt(j).none /\ Has(accepted, NameAt(j))

C7_OverrideBeforeFallback ==
    Called =>
        \A i \in FieldIndex :
            (~CandidateAt(i).none /\ CandidateAt(i).final_score < T_LOW) =>
                /\ IF _deterministic_accept(NameAt(i), CandidateAt(i).text)
                   THEN /\ ~InList(NameAt(i), pending_fields)
                        /\ Get(path, NameAt(i)) = "override"
                        /\ Has(accepted, NameAt(i))
                        /\ Get(accepted, NameAt(i))
                             = Str(_normalize_value(CandidateAt(i).text, NameAt(i)))
                   ELSE /\ InList(NameAt(i), pending_fields)
                        /\ Get(path, NameAt(i)) = "fallback"
                        /\ ~Has(accepted, NameAt(i))
                /\ (Contains(Lower(NameAt(i)), S_cpf)
                      /\ Len(SelectSeq(CandidateAt(i).text, IsDigit)) = 11)
                   => /\ ~InList(NameAt(i), pending_fields)
                      /\ Len(field_results) = 1 => llm_requests = <<>>

C7_Witness ==
    /\ phase = "returned"
    /\ Len(field_results) = 1
    /\ NameAt(1) = N_cpf
    /\ ~CandidateAt(1).none
    /\ CandidateAt(1).final_score < T_LOW
    /\ Len(SelectSeq(CandidateAt(1).text, IsDigit)) = 11
    /\ Len(CandidateAt(1).text) # 11
    /\ llm_requests = <<>>
    /\ ~used_llm_last_call
    /\ final_values = <<<<N_cpf, Str(Text_cpf_formatted)>>>>

Raised(i, from, to) ==
    /\ phase = "returned" /\ phase' = "returned"
    /\ i \in FieldIndex
    /\ NameAt(i)' = NameAt(i)
    /\ ~CandidateAt(i).none /\ ~CandidateAt(i)'.none
    /\ CandidateAt(i)'.text = CandidateAt(i).text
    /\ CandidateAt(i).final_score = from
    /\ CandidateAt(i)'.final_score = to

ExpectedPending ==
    {NameAt(i) : i \in {j \in FieldIndex :
        \/ CandidateAt(j).none
        \/ /\ CandidateAt(j).final_score < T_LOW
           /\ ~_deterministic_accept(NameAt(j), CandidateAt(j).text)}}

\* C9: the request of the fallback call asks for exactly the pending fields,
\* each with its description from the schema, and carries as context exactly
\* the fields accepted so far with their formatted values; the two sets are
\* disjoint and together are all fields of the call.
C9_RequestIsPendingPlusAccepted ==
    (Called /\ llm_requests # <<>>) =>
        /\ Keys(llm_requests[1].fields) = pending_fields
        /\ KeySet(llm_requests[1].fields) = ExpectedPending
        /\ \A f \in KeySet(llm_requests[1].fields) :
              Get(llm_requests[1].fields, f) = Get(extraction_schema, f)
        /\ llm_requests[1].extracted_context = accepted
        /\ \A i \in FieldIndex :
              NameAt(i) \notin ExpectedPending =>
                  /\ Has(llm_requests[1].extracted_context, NameAt(i))
                  /\ Get(llm_requests[1].extracted_context, NameAt(i))
                       = Str(_normalize_value(CandidateAt(i).text, NameAt(i)))
        /\ KeySet(llm_requests[1].fields) \cap KeySet(llm_requests[1].extracted_context) = {}
        /\ KeySet(llm_requests[1].fields) \cup KeySet(llm_requests[1].extracted_context)
             = KeySet(field_results)
        /\ llm_requests[1].label = label

C9_Witness ==
    /\ phase = "returned"
    /\ Len(llm_requests) = 1
    /\ Len(llm_requests[1].fields) = 1
    /\ Len(llm_requests[1].extracted_context) = 1
    /\ llm_requests[1].extracted_context[1][2] # Str(<<>>)

\* C10: the excerpt sent to the service is the prefix of the full text of
\* length min(3000, length of the full text): never longer than 3000
\* characters, and the whole text when that has 3000 characters or fewer.
C10_SnippetIsBoundedPrefix ==
    \A n \in 1..Len(llm_requests) :
        /\ Len(llm_requests[n].document_text) = Min2(3000, Len(full_text))
        /\ Len(llm_requests[n].document_text) <= 3000
        /\ \A j \in 1..Len(llm_requests[n].document_text) :
              llm_requests[n].document_text[j] = full_text[j]
        /\ Len(full_text) <= 3000 => llm_requests[n].document_text = full_text

C10_Witness ==
    /\ phase = "returned"
    /\ Len(llm_requests) = 1
    /\ Len(full_text) > 3000
    /\ Len(llm_requests[1].document_text) = 3000
    /\ llm_requests[1].document_text # full_text


-----------------------------------------------------------------------------
(* Properties of extract *)

\* extract has left, by returning or by an exception
Left == phase \in {"returned", "raised"}

\* every value of the mapping is the empty string
AllEmpty(values) == \A i \in 1..Len(values) : values[i][2] = Str(<<>>)

\* C11: when the schema is empty or the document has zero fragments, the
\* mapping extract returns has exactly the schema's keys, every value is the
\* empty string, and the fallback service is called zero times.
C11_NothingToExtractIsEmpty ==
    (phase = "returned" /\ embedding.fails = "never"
        /\ (extraction_schema = <<>> \/ text_blocks = <<>>)) =>
        /\ Keys(final_values) = Keys(extraction_schema)
        /\ AllEmpty(final_values)
        /\ llm_requests = <<>>


\* the field i of the schema has no evidence in the document: no fragment
\* matches its patterns and no fragment has a cosine above 0.2 to its query
NoEvidence(i) ==
    /\ \A b \in 1..Len(text_blocks) : embedding.query[i][b] <= 200
    /\ _regex_candidates(text_blocks, extraction_schema[i][1], extraction_schema[i][2]) = <<>>

\* the fallback was invoked once, with the field alone
SolePending(field_name) ==
    /\ pending_fields = <<field_name>>
    /\ Len(llm_requests) = 1
    /\ Keys(llm_requests[1].fields) = <<field_name>>

\* C12 as stated: a field that is alone in the schema and has no evidence in
\* the document has the result None and is the sole pending field of the one
\* fallback call.
C12_NoEvidenceIsAbsent ==
    (phase = "returned" /\ Len(extraction_schema) = 1 /\ NoEvidence(1)) =>
        /\ CandidateAt(1).none
        /\ SolePending(NameAt(1))

\* C12 amended: a field without evidence has the result None only when the
\* document has no fragment at all; otherwise its result is the best ranked
\* fragment of the semantic search, and the fallback is invoked once with the
\* field as the sole pending field when that candidate scores below T_LOW
\* without override, and not at all when the candidate is accepted.
C12_NoEvidenceIsWeakCandidate ==
    (phase = "returned" /\ Len(extraction_schema) = 1 /\ NoEvidence(1)) =>
        /\ CandidateAt(1).none <=> text_blocks = <<>>
        /\ ~CandidateAt(1).none =>
              /\ CandidateAt(1).method = "semantic"
              /\ \E b \in 1..Len(text_blocks) : CandidateAt(1).text = text_blocks[b]
        /\ IF \/ CandidateAt(1).none
              \/ /\ CandidateAt(1).final_score < T_LOW
                 /\ ~_deterministic_accept(NameAt(1), CandidateAt(1).text)
           THEN SolePending(NameAt(1))
           ELSE pending_fields = <<>> /\ llm_requests = <<>>

C12_Witness ==
    /\ phase = "returned"
    /\ extraction_schema = SchemaOf(<<N_cidade>>)
    /\ NoEvidence(1)
    /\ text_blocks = <<T_title, T_cpf_line>>
    /\ ~CandidateAt(1).none
    /\ CandidateAt(1).method = "semantic"
    /\ CandidateAt(1).final_score < T_LOW
    /\ SolePending(N_cidade)


-----------------------------------------------------------------------------
(* Properties of the scorer *)

\* the candidates generated for the field i of the schema
GeneratedFor(i) == candidates[i][2]

IsElevenDigits(text) == Len(text) = 11 /\ \A k \in 1..11 : IsDigit(text[k])

\* XXX.XXX.XXX-XX with the digits of text in their order
DottedCpf(text) ==
    <<text[1], text[2], text[3], ".", text[4], text[5], text[6], ".",
      text[7], text[8], text[9], "-", text[10], text[11]>>

\* C13: for a field whose name contains 'cpf' every candidate text of exactly
\* 11 digits has the value-shape sub-score 1.0, and when it is the selected
\* candidate the field is accepted with the value XXX.XXX.XXX-XX.
C13_ElevenDigitsScoreAndFormat ==
    \A i \in 1..Len(candidates) :
        Contains(Lower(candidates[i][1]), S_cpf) =>
            /\ \A n \in 1..Len(GeneratedFor(i)) :
                  IsElevenDigits(GeneratedFor(i)[n].text) =>
                      _validate_value(GeneratedFor(i)[n].text, candidates[i][1],
                                      Get(extraction_schema, candidates[i][1])) = 1000
            /\ (phase = "returned" /\ IsElevenDigits(CandidateAt(i).text)) =>
                  /\ Has(accepted, NameAt(i))
                  /\ Get(accepted, NameAt(i)) = Str(DottedCpf(CandidateAt(i).text))
                  /\ Get(final_values, NameAt(i)) = Str(DottedCpf(CandidateAt(i).text))
                  /\ llm_requests = <<>>

C13_Witness ==
    /\ phase = "returned"
    /\ NameAt(1) = N_cpf_titular
    /\ CandidateAt(1).text = T_digits_11
    /\ Get(path, N_cpf_titular) = "override"
    /\ Get(final_values, N_cpf_titular) = Str(Text_cpf_formatted)


-----------------------------------------------------------------------------
(* Properties of the functions *)

IsCepRaw(text) == Len(text) = 8 /\ \A k \in 1..8 : IsDigit(text[k])

IsCepHyphenated(text) ==
    /\ Len(text) = 9
    /\ text[6] = "-"
    /\ \A k \in (1..9) \ {6} : IsDigit(text[k])

\* C14: for a 'cep' field _normalize_value maps DDDDD-DDD to itself and
\* DDDDDDDD to DDDDD-DDD with the same digits, and applying it to its own
\* result changes nothing.
C14_CepIsNormalizedOnce ==
    (fn_arg.function = "_normalize_value" /\ fn_out # <<>>) =>
        /\ IsCepHyphenated(fn_arg.value) => fn_out[1] = fn_arg.value
        /\ IsCepRaw(fn_arg.value) =>
              /\ IsCepHyphenated(fn_out[1])
              /\ \A k \in 1..8 : fn_out[1][IF k <= 5 THEN k ELSE k + 1] = fn_arg.value[k]
        /\ Len(fn_out) = 2 => fn_out[2] = fn_out[1]

C14_Witness ==
    /\ fn_arg.function = "_normalize_value"
    /\ fn_arg.field_name = N_cep_entrega
    /\ fn_arg.value = T_cep_raw
    /\ fn_out = <<<<"0", "1", "3", "1", "0", "-", "1", "0", "0">>, <<"0", "1", "3", "1", "0", "-", "1", "0", "0">>>>


\* C15: normalize_text is idempotent: applied to its own result it returns
\* that result, for every string of letters, digits, whitespace, allowed
\* punctuation and special characters.
C15_NormalizeTextIsIdempotent ==
    (fn_arg.function = "normalize_text" /\ Len(fn_out) = 2) => fn_out[2] = fn_out[1]


-----------------------------------------------------------------------------
(* Properties of extract under failures *)

\* C16: a failure of the embedding service while the candidates are generated
\* (embedding the label, a field's query or the fragments) does not abort the
\* extraction: extract returns, with an outcome for every field of the schema.
C16_EmbeddingFailureIsLocal ==
    (embedding.fails # "never" /\ Left) =>
        /\ phase = "returned"
        /\ KeySet(final_values) = KeySet(extraction_schema)


\* C17: the keys of the mapping returned come in the order of the fields in
\* the schema, for every combination of accepted and pending fields.
C17_OutputMirrorsSchemaOrder ==
    phase = "returned" => Keys(final_values) = Keys(extraction_schema)


\* the combined score of the n-th candidate generated for the field i
FinalOf(i, n) ==
    score_candidate(GeneratedFor(i)[n], candidates[i][1],
                    Get(extraction_schema, candidates[i][1]), GeneratedFor(i))

\* the selected candidate of the field i is the n-th of its list
SelectedIs(i, n) == CandidateAt(i) = Scored(GeneratedFor(i)[n], FinalOf(i, n))

Selected == phase \in {"ready", "returned"}

\* C19: select_best_candidate returns None exactly when the list is empty;
\* otherwise it returns a candidate of the list with its combined score as
\* final_score, no candidate of the list scores more, and every candidate
\* before it in the list scores less.
C19_FirstMaximalCandidate ==
    Selected =>
        \A i \in FieldIndex :
            /\ NameAt(i) = candidates[i][1]
            /\ CandidateAt(i).none <=> GeneratedFor(i) = <<>>
            /\ ~CandidateAt(i).none =>
                  \E n \in 1..Len(GeneratedFor(i)) :
                      /\ SelectedIs(i, n)
                      /\ \A m \in 1..Len(GeneratedFor(i)) : FinalOf(i, m) <= FinalOf(i, n)
                      /\ \A m \in 1..(n - 1) : FinalOf(i, m) < FinalOf(i, n)

C19_Witness ==
    /\ Selected
    /\ Len(GeneratedFor(1)) = 3
    /\ FinalOf(1, 1) < FinalOf(1, 2)
    /\ FinalOf(1, 2) = FinalOf(1, 3)
    /\ SelectedIs(1, 2)


\* C20: the semantic sub-score of score_candidate is (similarity + 1) / 2 for
\* every candidate that has a similarity, whatever its sign, and 0 for a
\* candidate without one; it always lies within [0, 1].
C20_SemanticScoreIsRescaled ==
    \A i \in 1..Len(candidates) : \A n \in 1..Len(GeneratedFor(i)) :
        /\ SemanticScore(GeneratedFor(i)[n])
             = (IF GeneratedFor(i)[n].has_similarity
                THEN (GeneratedFor(i)[n].similarity + 1000) \div 2
                ELSE 0)
        /\ SemanticScore(GeneratedFor(i)[n]) \in 0..1000


-----------------------------------------------------------------------------
(* Properties of the label cache *)

\* every entry of the cache holds the embedding of its label, and a call that
\* has got its label_embedding holds the embedding of its own label
CacheIsSound ==
    /\ \A k \in 1..Len(label_cache) : label_cache[k][2] = Embed(label_cache[k][1])
    /\ \A c \in 1..Len(generate_calls) :
          generate_calls[c].pc \in {"store", "search", "returned"} =>
              generate_calls[c].label_embedding = Embed(generate_calls[c].label)

\* a step removes no entry of the cache and changes no value
CacheGrows ==
    \A k \in 1..Len(label_cache) :
        /\ Has(label_cache', label_cache[k][1])
        /\ Get(label_cache', label_cache[k][1]) = label_cache[k][2]

\* C18: under every interleaving of the generate_candidates calls that share
\* the cache, an entry once inserted is never removed and never changes
\* value, concurrent calls for an uncached label write the same value, and
\* every call uses the embedding of its own label.
C18_CacheIsAppendOnly == [](CacheIsSound) /\ [][CacheGrows]_vars

\* two calls for the same label have both computed its embedding: one has
\* written it, the other is about to write it again, and a third label is cached
C18_Witness ==
    /\ Len(label_cache) = 2
    /\ \E c, d \in 1..Len(generate_calls) :
          /\ c # d
          /\ generate_calls[c].label = generate_calls[d].label
          /\ generate_calls[c].pc = "store"
          /\ generate_calls[d].pc \in {"search", "returned"}
          /\ Has(label_cache, generate_calls[c].label)


-----------------------------------------------------------------------------
(* Properties of the candidate lists *)

\* C21: every candidate that generate_candidates emits has a score within
\* [0, 1], pattern candidates and semantic candidates alike, for cosines
\* anywhere in [-1, 1].
C21_CandidateScoreInUnitInterval ==
    \A i \in 1..Len(candidates) : \A n \in 1..Len(GeneratedFor(i)) :
        GeneratedFor(i)[n].score \in 0..1000


\* the candidates of both sources, before and after the end of generate_candidates
RawCandidates == fn_arg.field_candidates
Ranked == fn_out[1]

\* the highest score among the raw candidates of one normalized text
BestScoreOf(normalized) ==
    CHOOSE x \in {RawCandidates[j].score : j \in 1..Len(RawCandidates)} :
        /\ \E j \in 1..Len(RawCandidates) :
              RawCandidates[j].normalized = normalized /\ RawCandidates[j].score = x
        /\ \A j \in 1..Len(RawCandidates) :
              RawCandidates[j].normalized = normalized => RawCandidates[j].score <= x

\* C22: the list generate_candidates returns for a field has at most top_k
\* entries, in falling score, no two with the same normalized text; each entry
\* is a candidate of the sources that has the highest score of its normalized
\* text; and a normalized text is missing from the list only when the list is
\* full and the text scores no more than its last entry.
C22_RankedDeduplicatedTopK ==
    (fn_arg.function = "rank" /\ fn_out # <<>>) =>
        /\ Len(Ranked) <= top_k
        /\ \A n \in 1..(Len(Ranked) - 1) : Ranked[n].score >= Ranked[n + 1].score
        /\ \A n, m \in 1..Len(Ranked) : n # m => Ranked[n].normalized # Ranked[m].normalized
        /\ \A n \in 1..Len(Ranked) :
              /\ \E j \in 1..Len(RawCandidates) : RawCandidates[j] = Ranked[n]
              /\ Ranked[n].score = BestScoreOf(Ranked[n].normalized)
        /\ \A j \in 1..Len(RawCandidates) :
              \/ \E n \in 1..Len(Ranked) : Ranked[n].normalized = RawCandidates[j].normalized
              \/ /\ Len(Ranked) = top_k
                 /\ BestScoreOf(RawCandidates[j].normalized) <= Ranked[top_k].score

\* a later candidate replaces an earlier one of the same normalized text, and
\* the list is cut
C22_Witness ==
    /\ fn_arg.function = "rank" /\ fn_out # <<>>
    /\ Len(Ranked) = top_k
    /\ \E j, k \in 1..Len(RawCandidates) :
          /\ j < k
          /\ RawCandidates[j].normalized = RawCandidates[k].normalized
          /\ RawCandidates[j].score < RawCandidates[k].score
          /\ \E n \in 1..Len(Ranked) : Ranked[n] = RawCandidates[k]
    /\ \E j \in 1..Len(RawCandidates) :
          \A n \in 1..Len(Ranked) : Ranked[n].normalized # RawCandidates[j].normalized


-----------------------------------------------------------------------------
(* Properties of group_blocks *)

Groups == fn_out[1]

Grouped == fn_arg.function = "group_blocks" /\ fn_out # <<>>

RECURSIVE Concatenation(_)
Concatenation(groups) ==
    IF groups = <<>> THEN <<>> ELSE Head(groups) \o Concatenation(Tail(groups))

\* the group that holds the k-th fragment of the concatenation
GroupOf(k) ==
    CHOOSE g \in 1..Len(Groups) :
        /\ Len(Concatenation(SubSeq(Groups, 1, g - 1))) < k
        /\ k <= Len(Concatenation(SubSeq(Groups, 1, g)))

\* the vertical offset is below max_distance and the gap from the right edge
\* of a to the left edge of b is below twice max_distance
CloseBy(a, b) ==
    /\ a.top - b.top < 20 /\ b.top - a.top < 20
    /\ b.left - a.right < 40

\* C23: group_blocks returns a partition of its input: the groups put end to
\* end are the fragments sorted by (top, left), no group is empty, and two
\* consecutive fragments of that order share a group exactly when they are
\* close by; an empty input gives no groups.
C23_GroupsPartitionSortedBlocks ==
    Grouped =>
        LET flat == Concatenation(Groups)
        IN  /\ fn_arg.blocks = <<>> <=> Groups = <<>>
            /\ \A g \in 1..Len(Groups) : Groups[g] # <<>>
            /\ Len(flat) = Len(fn_arg.blocks)
            /\ \A i \in 1..Len(fn_arg.blocks) : \E k \in 1..Len(flat) : flat[k] = fn_arg.blocks[i]
            /\ \A k \in 1..(Len(flat) - 1) :
                  /\ \/ flat[k].top < flat[k + 1].top
                     \/ flat[k].top = flat[k + 1].top /\ flat[k].left <= flat[k + 1].left
                  /\ (GroupOf(k) = GroupOf(k + 1)) <=> CloseBy(flat[k], flat[k + 1])

\* three fragments: the second joins the first, the third starts a new group
\* because its gap is exactly twice max_distance
C23_Witness ==
    /\ Grouped
    /\ Len(fn_arg.blocks) = 3
    /\ Len(Groups) = 2
    /\ Len(Groups[1]) = 2
    /\ Groups[1][1].top # Groups[1][2].top
    /\ Groups[2][1].left - Groups[1][2].right = 40
    /\ Groups[2][1].top = Groups[1][2].top
    /\ fn_arg.blocks[1] = Groups[2][1]

\* C24: every group reads left to right: within a group the fragments come
\* in non-decreasing order of their left edge.
C24_GroupsReadLeftToRight ==
    Grouped =>
        \A g \in 1..Len(Groups) : \A k \in 1..(Len(Groups[g]) - 1) :
            Groups[g][k].left <= Groups[g][k + 1].left


-----------------------------------------------------------------------------
(* Properties of the date normalization *)

\* DD/MM/YYYY
IsFullDate(text) ==
    /\ Len(text) = 10
    /\ text[3] = "/" /\ text[6] = "/"
    /\ \A k \in (1..10) \ {3, 6} : IsDigit(text[k])

\* the year as the value writes it: the digits after the last separator
YearOf(value) ==
    LET last == CHOOSE k \in 1..Len(value) :
                    /\ value[k] \in DateSeparators
                    /\ \A j \in (k + 1)..Len(value) : value[j] \notin DateSeparators
    IN  SubSeq(value, last + 1, Len(value))

\* C25: for a date field _normalize_value maps every value D{1,2} sep D{1,2}
\* sep D{2,4}, behind a label word and colon or not, to DD/MM/YYYY; a
\* two-digit year yy becomes 20yy when yy <= 50 and 19yy otherwise.
C25_DatesBecomeFullDates ==
    (fn_arg.function = "_normalize_value" /\ fn_out # <<>>) =>
        /\ IsFullDate(fn_out[1])
        /\ Len(YearOf(fn_arg.value)) = 2 =>
              SubSeq(fn_out[1], 7, 10)
                = (IF ToInt(YearOf(fn_arg.value)) <= 50 THEN <<"2", "0">> ELSE <<"1", "9">>)
                  \o YearOf(fn_arg.value)


-----------------------------------------------------------------------------
(* Properties of the engine across calls *)

\* C26: after any sequence of process_extraction calls on one engine,
\* used_llm_last_call is true exactly when the most recent call invoked the
\* fallback service, and the outcome of the most recent call is that of a
\* first call with the same arguments.
C26_FlagTellsLastCall ==
    phase = "returned" =>
        /\ used_llm_last_call <=> llm_requests # <<>>
        /\ used_llm_last_call <=> pending_fields # <<>>
        /\ \E r \in {process_extraction(field_results, label, extraction_schema,
                                        full_text, llm_reply)} :
              /\ final_values = r.final_values
              /\ pending_fields = r.pending_fields
              /\ llm_requests = r.llm_requests

\* a later call without pending field, after a call that had the rescored
\* field pending: the flag that call left true is false again
C26_Witness ==
    /\ phase = "returned"
    /\ rescored # 0
    /\ CandidateAt(rescored).final_score = T_LOW
    /\ ~_deterministic_accept(NameAt(rescored), CandidateAt(rescored).text)
    /\ pending_fields = <<>>
    /\ ~used_llm_last_call


-----------------------------------------------------------------------------
(* Properties of TextExtractor.extract *)

ParseLeft == fn_arg.function = "extract" /\ fn_out.pc \in {"returned", "raised"}

\* C27: when PyMuPDF raises, pdfplumber is run on the same bytes and its
\* blocks are returned if it succeeds; extract raises only when both have
\* raised; pdfplumber is never run when PyMuPDF succeeds.
C27_AlternateParserBeforeGivingUp ==
    (ParseLeft /\ fn_arg.use_pymupdf) =>
        IF ~fn_arg.pymupdf.raises
        THEN /\ fn_out.pc = "returned"
             /\ fn_out.ran = <<"pymupdf">>
             /\ fn_out.blocks = fn_arg.pymupdf.blocks
        ELSE /\ fn_out.ran = <<"pymupdf", "pdfplumber">>
             /\ IF ~fn_arg.pdfplumber.raises
                THEN fn_out.pc = "returned" /\ fn_out.blocks = fn_arg.pdfplumber.blocks
                ELSE fn_out.pc = "raised"

C27_Witness ==
    /\ ParseLeft
    /\ fn_arg.use_pymupdf
    /\ fn_arg.pymupdf.raises
    /\ fn_arg.pymupdf.blocks # fn_arg.pdfplumber.blocks
    /\ fn_out.pc = "returned"
    /\ fn_out.ran = <<"pymupdf", "pdfplumber">>
    /\ fn_out.blocks = <<T_name, T_title>>


\* C28: the fallback response changes the outcome only at pending fields: a
\* value accepted in the field loop is the field's final value, and the final
\* values hold no key outside the schema, for every JSON object of the service.
C28_ResponseChangesOnlyPendingFields ==
    phase = "returned" =>
        /\ \A i \in 1..Len(accepted) :
              /\ Has(final_values, accepted[i][1])
              /\ Get(final_values, accepted[i][1]) = accepted[i][2]
        /\ \A i \in 1..Len(final_values) : Has(extraction_schema, final_values[i][1])


-----------------------------------------------------------------------------
(* Properties of the pattern source *)

\* C29: a candidate of method 'regex' (base score 0.4, no similarity) has a
\* final score of at most 0.585, below T_LOW: a field whose selected candidate
\* is a pattern candidate is never accepted through the High or the Medium
\* tier, it is resolved by the override or by the fallback.
C29_PatternCandidateIsBelowLow ==
    \A i \in 1..Len(candidates) :
        /\ \A n \in 1..Len(GeneratedFor(i)) :
              GeneratedFor(i)[n].method = "regex" =>
                  /\ GeneratedFor(i)[n].score = 400
                  /\ ~GeneratedFor(i)[n].has_similarity
                  /\ FinalOf(i, n) <= 585
                  /\ FinalOf(i, n) < T_LOW
        /\ (Selected /\ ~CandidateAt(i).none /\ CandidateAt(i).method = "regex") =>
              /\ CandidateAt(i).final_score <= 585
              /\ phase = "returned" =>
                    /\ Get(path, NameAt(i)) \in {"override", "fallback"}
                    /\ Get(path, NameAt(i)) = "fallback" <=> SolePending(NameAt(i))

C29_Witness ==
    /\ phase = "returned"
    /\ NameAt(1) = N_cpf
    /\ ~CandidateAt(1).none
    /\ CandidateAt(1).method = "regex"
    /\ CandidateAt(1).final_score = 585
    /\ Len(GeneratedFor(1)) > 1
    /\ Get(path, N_cpf) = "override"


\* the email pattern is among the patterns of the field
HasEmailPattern ==
    \E k \in 1..Len(_get_regex_patterns(fn_arg.field_name, fn_arg.field_description)) :
        _get_regex_patterns(fn_arg.field_name, fn_arg.field_description)[k].match_type = "email"

\* C30: the text the pattern source searches holds no character outside the
\* allow-list of the normalizer, in particular no '@'; the email pattern
\* therefore never matches, and an email field gets no pattern candidate even
\* when a fragment holds a well-formed address.
C30_SearchedTextIsInAllowList ==
    (fn_arg.function = "_regex_candidates" /\ fn_out # <<>>) =>
        /\ \A k \in 1..Len(fn_out[1]) : IsAllowed(fn_out[1][k]) /\ fn_out[1][k] # "@"
        /\ HasEmailPattern
        /\ Len(fn_out) = 2 => fn_out[2] = <<>>

====
